---- MODULE Spec2Model ----
(***************************************************************************)
(* Token lifecycle manager of the Vinted deal-alert bot                    *)
(* (src/src/services/vinted-token-service.ts): the per-user access-token   *)
(* cache, the block/backoff state, the reauth-required state and the       *)
(* in-flight refresh map, together with the account store rows the         *)
(* refresh reads and writes.                                               *)
(*                                                                         *)
(* Time is Date.now() in milliseconds.  One "slot" is one caller of        *)
(* getAccessTokenForUser; a slot is reused for the caller's next call.     *)
(* JavaScript runs each handler to its next await, so every action below   *)
(* is the code between two awaits of one call.                             *)
(***************************************************************************)
EXTENDS Integers, Sequences, FiniteSets, TLC

\* ---------------------------------------------------------------- bounds
Users == {"u1", "u2"}
Slots == {"s1", "s2"}

\* the clock is read FineStep apart up to MaxFine after each CoarseStep mark
MaxFine == 30000
\* the last instant of a run of Spec and SpecUsers, and of SpecBackoff
MaxNow == 1830000
MaxLongNow == 10830000
FineStep == 30 * 1000
CoarseStep == 30 * 60 * 1000
TimeSteps == {FineStep, CoarseStep}
\* the most consecutive blocked refresh failures of one user a run holds
MaxBlockedRuns == 8

RefreshTokens == {"r1", "r2"}
\* access_token / refresh_token pairs the token endpoint answers with
TokenPairs == {<<"a1", "r1">>, <<"a2", "r2">>}
\* expires_in values (seconds) the token endpoint answers with
ExpiresIns == {60, 3600}

\* ------------------------------------------------------- program constants
REAUTH_COOLDOWN_MS == 30 * 60 * 1000
SAFETY_MARGIN_MS == 30000
BACKOFF_BASE_MS == 30000
BACKOFF_CAP_MS == 30 * 60000
MAX_STRIKES == 6

Min(a, b) == IF a < b THEN a ELSE b

\* ------------------------------------------------------------ map entries
\* Map.get(k) === undefined
NoEntry == [kind |-> "none"]
NoSlot == "none"

CachedToken(a, r, e, g) ==
  [kind |-> "token", accessToken |-> a, refreshToken |-> r, expiresAtMs |-> e, region |-> g]

BlockState(u, k) == [kind |-> "block", until |-> u, strikes |-> k]

ReauthState(u) == [kind |-> "reauth", until |-> u]

\* -------------------------------------------------------------- Results
NoResult == [kind |-> "none"]
Ok(v) == [kind |-> "ok", value |-> v]
Err(e) == [kind |-> "err", error |-> e]
\* the promise rejected: an exception crossed the await
Thrown == [kind |-> "thrown"]

ERR_BLOCKED_FAST == <<"Vinted", "hat", "die", "Anfrage", "blockiert", "Bitte", "warte", "kurz">>
ERR_REAUTH == <<"Vinted-Token", "ist", "ungueltig", "Fuehre", "/setup", "account", "erneut", "aus">>
ERR_NO_ACCOUNT == <<"Kein", "Vinted-Konto", "eingerichtet">>
ERR_REGION == <<"Nicht", "unterstuetzte", "Region">>
ERR_DECRYPT == <<"Gespeicherter", "Refresh-Token", "konnte", "nicht", "entschluesselt", "werden">>
ERR_REFRESH_FAILED == <<"Vinted-Token", "konnte", "nicht", "erneuert", "werden">>

reauthRequiredError == ERR_REAUTH

\* -------------------------------------------------- error classification
\* String.prototype.toLowerCase on the words that occur in messages
LowerWord(w) ==
  CASE w = "Blockiert" -> "blockiert"
    [] w = "INVALID_GRANT" -> "invalid_grant"
    [] w = "Authorization" -> "authorization"
    [] w = "Grant" -> "grant"
    [] w = "Access" -> "access"
    [] w = "Denied" -> "denied"
    [] w = "Acce^s" -> "acce^s"
    [] w = "Just" -> "just"
    [] w = "Text/HTML" -> "text/html"
    [] w = "<!DOCTYPE" -> "<!doctype"
    [] w = "Abholpunkt" -> "abholpunkt"
    [] OTHER -> w

ToLowerCase(m) == [i \in 1..Len(m) |-> LowerWord(m[i])]

\* String.prototype.includes: needle occurs as a contiguous run of words
Includes(m, needle) ==
  \E i \in 1..Len(m) :
    /\ i + Len(needle) - 1 <= Len(m)
    /\ \A j \in 1..Len(needle) : m[i + j - 1] = needle[j]

isBlockedError(message) == Includes(ToLowerCase(message), <<"blockiert">>)

isInvalidGrantError(message) ==
  LET lower == ToLowerCase(message)
  IN  \/ Includes(lower, <<"invalid_grant">>)
      \/ Includes(lower, <<"authorization", "grant", "is", "invalid">>)

\* error messages VintedClient.refreshToken answers with
ServerErrors ==
  { <<"Vinted", "hat", "die", "Anfrage", "blockiert">>,
    <<"Blockiert">>,
    <<"Vinted", "request", "failed", "(401)", "invalid_grant">>,
    <<"Authorization", "grant", "is", "invalid">>,
    <<"blockiert", "INVALID_GRANT">>,
    <<"Vinted", "request", "failed", "(500)", "Internal", "server", "error">> }

\* ------------------------------------------------------------ encryption
VERSION == "v1"
encryptToken(plain) == [version |-> VERSION, tagOk |-> TRUE, data |-> plain]
DecryptThrows == "DECRYPT_THROWS"
decryptToken(payload) ==
  IF payload.version # VERSION \/ ~payload.tagOk THEN DecryptThrows ELSE payload.data

\* --------------------------------------------------------------- regions
VintedRegions == {"de", "at", "fr", "it", "es", "nl", "pl", "cz", "pt"}
isVintedRegion(value) == value \in VintedRegions
parseRegion(region) == IF isVintedRegion(region) THEN Ok(region) ELSE Err(ERR_REGION)

\* --------------------------------------------------------- account store
NoAccount == [kind |-> "none"]
AccountRow(g, e) == [kind |-> "row", region |-> g, encryptedRefreshToken |-> e]
\* rows the store can hold when the process starts
InitialRows ==
  { NoAccount,
    AccountRow("de", encryptToken("r1")),
    AccountRow("de", [version |-> "v0", tagOk |-> TRUE, data |-> "r1"]),
    AccountRow("xx", encryptToken("r1")) }

VARIABLES
  now,             \* Date.now()
  accounts,        \* vinted_accounts rows by discordUserId
  cache,           \* Map<string, CachedToken>
  blocked,         \* Map<string, BlockState>
  reauthRequired,  \* Map<string, ReauthState>
  inFlight,        \* Map<string, Promise>: the slot that owns the promise
  pc,              \* position of each call
  user,            \* input.discordUserId of each call
  path,            \* the branch the call took on entry
  sent,            \* the locals refreshToken / regionRes of the running refresh
  refreshed,       \* the local `refreshed.value` (the token endpoint's answer)
  joinedTo,        \* the promise a caller got from inFlight.get
  ret,             \* what the call completed with
  \* history, read by the properties only
  issued,          \* the call made the VintedClient.refreshToken network call
  raced,           \* clearTokenStateForUser ran while a refresh of the user was in progress
  clearedSince,    \* clearTokenStateForUser ran for the call's user since the call started
  covered,         \* earlier calls whose token (or running refresh) covered this call's start
  clean,           \* ... those of them with no clear between the two starts
  arrivedDuring,   \* the refreshes of the user that were in progress when the call started
  afterClear,      \* clearTokenStateForUser ended the user's invalid_grant window, no call since
  nBlocked,        \* consecutive blocked refresh failures of the user
  blockTried,      \* a call has started since the user's current block entry ran out
  igUntil          \* end of the 30 minutes after the user's last invalid_grant failure

\* the state of the token service and its callers
tokenVars ==
  <<now, accounts, cache, blocked, reauthRequired, inFlight,
    pc, user, path, sent, refreshed, joinedTo, ret,
    issued, raced, clearedSince, covered, clean, arrivedDuring, afterClear,
    nBlocked, blockTried, igUntil>>

\* one call of VintedClient.refreshToken (part_010 lines 1685-1751)
VARIABLES
  rtPc,            \* "idle", "fetch" (an attempt of pRetry awaits fetchJson), "done"
  rtAttempts,      \* attempts of the pRetry callback started by this call
  rtLog,           \* what fetchJson answered to each attempt, in order
  rtLastError,     \* lastErrorMessage
  rtResult         \* the Result the call resolved with

clientVars == <<rtPc, rtAttempts, rtLog, rtLastError, rtResult>>

\* one call of VintedClient.submitCheckoutPurchase (part_010 lines 2001-2089)
VARIABLES
  scPc,            \* "idle", "primary" / "authorized" (a PUT of the round is awaited), "done"
  scRound,         \* calls of sendCheckoutUpdate made by this call
  scPuts,          \* the PUT requests sent, in order
  scAnswers,       \* what fetchJson answered to each PUT, in order
  scResult         \* the Result the call resolved with

submitVars == <<scPc, scRound, scPuts, scAnswers, scResult>>

\* one call of attemptCheckoutBuild, attemptInstantBuy or attemptMakeOffer
\* (part_003 lines 296-760) and the dependencies it awaits
VARIABLES
  running,                \* the exported function that was called ("none": none yet)
  step,                   \* the dependency the call awaits; "idle", "done"
  sellerUserId,           \* input.sellerUserId (0: not given)
  pickupPoint,            \* account.value.pickupPoint
  transactionId,          \* what resolveTransactionId returned (0: not yet)
  checkoutItemId,         \* the item id of the running attemptBuildForItemId
  buildAttempts,          \* the item ids attemptBuildForItemId was called with, in order
  firstResult,            \* attemptCheckoutBuild: firstResult
  checkoutAttempt,        \* the CheckoutBuildResult attemptCheckoutBuild resolved with
  purchaseIdCandidates,   \* attemptSubmitWithoutCheckoutUrl: the normalized candidates
  candidate,              \* index of the candidate the loop is at
  fallbackFlags,          \* hasManualCheckoutHint, hasBlockedFailure, hasAccessDeniedFailure, hasFailedFallback, challengeUrl
  sendFailure,            \* attemptMakeOffer: finalStatus
  calls,                  \* the dependency calls made, in order
  answers,                \* what each call resolved with, in order
  attemptResult           \* the Result the exported function resolved with

actionVars ==
  <<running, step, sellerUserId, pickupPoint, transactionId, checkoutItemId,
    buildAttempts, firstResult, checkoutAttempt, purchaseIdCandidates, candidate,
    fallbackFlags, sendFailure, calls, answers, attemptResult>>

\* one evaluation of classifyCheckoutErrorMessage (part_005 lines 15-58)
VARIABLES
  clInput,         \* what the classified message is made of
  clStatus         \* the CheckoutFailureStatus returned for it ("none": none yet)

classifyVars == <<clInput, clStatus>>

\* everything outside the token service
\* fetchJson: the backend, the clock, the curl window, the session maps, the
\* calls in flight; setCookieByScopeHost and fetchFailures record what the
\* server set and when fetch failed
VARIABLES
  httpBackend, dateNow, preferCurlUntil, cookieJarByScopeHost, dynamicHeadersByScopeHost,
  fetchJsonCalls, started, setCookieByScopeHost, fetchFailures

transportVars ==
  <<httpBackend, dateNow, preferCurlUntil, cookieJarByScopeHost, dynamicHeadersByScopeHost,
    fetchJsonCalls, started, setCookieByScopeHost, fetchFailures>>

\* the requests of a mutating action of VintedClient and their answers
VARIABLES vcAction, vcPc, vcRequests, vcAnswers, vcErrors, vcResult

requestVars == <<vcAction, vcPc, vcRequests, vcAnswers, vcErrors, vcResult>>

\* resolveRefreshTokenForSetup: the call's arguments, the attempts made so far
\* and the result
VARIABLES rsPc, rsInput, rsAttempts, sawInvalidGrant, rsResult
setupVars == <<rsPc, rsInput, rsAttempts, sawInvalidGrant, rsResult>>

\* notifySetupRequiredIfNeeded: the two cooldown maps of the module, the clock,
\* the calls that run and the messages whose send was called
VARIABLES channelNotifiedUntilBySubscriptionId, dmNotifiedUntilByUserId,
          notifierNow, notifierCalls, sendCalls
notifierVars ==
  <<channelNotifiedUntilBySubscriptionId, dmNotifiedUntilByUserId,
    notifierNow, notifierCalls, sendCalls>>

\* the watcher: its clock, its backoff map, the subscription's row, the
\* catalogue, the position of the running tick with the locals of tick and
\* processSubscription, and what reached the channel and the buy service
VARIABLES watcherNow, blockedUntilBySubscriptionId, storedLastSeenItemId,
          subscriptionStored, listedItems, watcherPc, tickNow, subLastSeenItemId,
          newItems, itemIndex, lastHandledItemId, pendingLastSeenItemId,
          postedCount, buyCount, polledSinceBackoff
watcherVars ==
  <<watcherNow, blockedUntilBySubscriptionId, storedLastSeenItemId,
    subscriptionStored, listedItems, watcherPc, tickNow, subLastSeenItemId,
    newItems, itemIndex, lastHandledItemId, pendingLastSeenItemId,
    postedCount, buyCount, polledSinceBackoff>>

\* the parts modelled after the client
laterVars == <<setupVars, notifierVars, watcherVars>>

outsideVars ==
  <<clientVars, submitVars, actionVars, classifyVars, transportVars, requestVars, laterVars>>

\* what the steps of one part leave alone
exceptClient ==
  <<tokenVars, submitVars, actionVars, classifyVars, transportVars, requestVars, laterVars>>
exceptSubmit ==
  <<tokenVars, clientVars, actionVars, classifyVars, transportVars, requestVars, laterVars>>
exceptActions ==
  <<tokenVars, clientVars, submitVars, classifyVars, transportVars, requestVars, laterVars>>
exceptTransport ==
  <<tokenVars, clientVars, submitVars, actionVars, classifyVars, requestVars, laterVars>>
exceptRequests ==
  <<tokenVars, clientVars, submitVars, actionVars, classifyVars, transportVars, laterVars>>
exceptClassify ==
  <<tokenVars, clientVars, submitVars, actionVars, transportVars, requestVars, laterVars>>

beforeLater ==
  <<tokenVars, clientVars, submitVars, actionVars, classifyVars, transportVars, requestVars>>
exceptSetup == <<beforeLater, notifierVars, watcherVars>>
exceptNotifier == <<beforeLater, setupVars, watcherVars>>
exceptWatcher == <<beforeLater, setupVars, notifierVars>>

vars == <<tokenVars, outsideVars>>

NoMessage == <<>>

InitClient ==
  /\ rtPc = "idle"
  /\ rtAttempts = 0
  /\ rtLog = <<>>
  /\ rtLastError = NoMessage
  /\ rtResult = NoResult

InitSubmit ==
  /\ scPc = "idle"
  /\ scRound = 0
  /\ scPuts = <<>>
  /\ scAnswers = <<>>
  /\ scResult = NoResult

NoUrl == "null"

NoFlags ==
  [hasManualCheckoutHint |-> FALSE, hasBlockedFailure |-> FALSE,
   hasAccessDeniedFailure |-> FALSE, hasFailedFallback |-> FALSE,
   challengeUrl |-> NoUrl]

InitActions ==
  /\ running = "none"
  /\ step = "idle"
  /\ sellerUserId = 0
  /\ pickupPoint = ""
  /\ transactionId = 0
  /\ checkoutItemId = 0
  /\ buildAttempts = <<>>
  /\ firstResult = NoResult
  /\ checkoutAttempt = NoResult
  /\ purchaseIdCandidates = <<>>
  /\ candidate = 0
  /\ fallbackFlags = NoFlags
  /\ sendFailure = "none"
  /\ calls = <<>>
  /\ answers = <<>>
  /\ attemptResult = NoResult

NoInput == [status |-> "", later |-> "", denied |-> <<>>, block |-> <<>>, pickup |-> <<>>]

InitClassify ==
  /\ clInput = NoInput
  /\ clStatus = "none"

\* ------------------------------------------------------- session scopes
VintedHttpBackends == {"auto", "fetch", "curl"}
\* sessionKey left out by the caller
NoKey == "undefined"
\* the callers pass input.discordUserId, which has no white space to trim
SessionKeys == {"user-a", "user-b", NoKey}
DEFAULT_SESSION_SCOPE == "__global__"

normalizeSessionScope(sessionScope) ==
  IF sessionScope = NoKey THEN DEFAULT_SESSION_SCOPE ELSE sessionScope

SessionScopes == {normalizeSessionScope(k) : k \in SessionKeys}
Hosts == {"www.vinted.de", "www.vinted.fr"}
RequestProfiles == {"default", "oauth_token"}

CookieNames == {"anon_id", "v_udt"}
RememberedHeaders == {"x-anon-id", "x-v-udt", "x-incognia-request-token"}

\* a value a response carried, with the session key of the request it answered
Captured(v, key) == [kind |-> "value", value |-> v, capturedWith |-> key]
EmptyValue == ""
NoCookies == [n \in CookieNames |-> NoEntry]
NoHeaders == [n \in RememberedHeaders |-> NoEntry]

NoRequestHeaders == [cookie |-> NoCookies, anonId |-> NoEntry, vUdt |-> NoEntry, incognia |-> NoEntry]

\* the tasks that call fetchJson, once each
Callers == {1, 2}

IdleCall ==
  [pc |-> "idle", sessionScope |-> NoKey, host |-> "www.vinted.de", requestProfile |-> "default",
   index |-> 0, startedAt |-> 0, headers |-> NoRequestHeaders, triedFetch |-> FALSE,
   res |-> NoEntry, curlCalls |-> 0, result |-> NoResult]

InitTransport ==
  /\ httpBackend = "auto"
  /\ dateNow = 0
  /\ preferCurlUntil = 0
  /\ cookieJarByScopeHost = [at \in SessionScopes \X Hosts |-> NoCookies]
  /\ dynamicHeadersByScopeHost = [at \in SessionScopes \X Hosts |-> NoHeaders]
  /\ fetchJsonCalls = [p \in Callers |-> IdleCall]
  /\ started = 0
  /\ setCookieByScopeHost = [at \in SessionScopes \X Hosts |-> NoCookies]
  /\ fetchFailures = {}

InitRequests ==
  /\ vcAction = "none"
  /\ vcPc = "idle"
  /\ vcRequests = <<>>
  /\ vcAnswers = <<>>
  /\ vcErrors = <<>>
  /\ vcResult = NoResult

NoSetupCall == [kind |-> "none"]

InitSetup ==
  /\ rsPc = "idle"
  /\ rsInput = NoSetupCall
  /\ rsAttempts = <<>>
  /\ sawInvalidGrant = FALSE
  /\ rsResult = [kind |-> "none"]

\* the subscriptions of the store: two of one user
NotifierSubscriptions ==
  { [id |-> "sub-1", discordUserId |-> "user-1", discordChannelId |-> "channel-1"],
    [id |-> "sub-2", discordUserId |-> "user-1", discordChannelId |-> "channel-2"] }
\* the queue's tasks that can call the notifier at the same time
NotifierTasks == {1, 2}
IdleNotifierCall == [pc |-> "idle"]

InitNotifier ==
  \* an absent entry reads as 0 (lines 225-227)
  /\ channelNotifiedUntilBySubscriptionId = [s \in {sub.id : sub \in NotifierSubscriptions} |-> 0]
  /\ dmNotifiedUntilByUserId = [u \in {sub.discordUserId : sub \in NotifierSubscriptions} |-> 0]
  /\ notifierNow = 0
  /\ notifierCalls = [p \in NotifierTasks |-> IdleNotifierCall]
  /\ sendCalls = {}

\* the subscriptions the watcher polls and the items the catalogue can list
WatcherSubscriptions == {"sub-1"}
MaxItemId == 3
WatcherItems == 1 .. MaxItemId
\* lastSeenItemId of a subscription that was never polled: `!sub.lastSeenItemId`
NoLastSeen == 0

InitWatcher ==
  /\ watcherNow = 0
  /\ blockedUntilBySubscriptionId = [s \in WatcherSubscriptions |-> NoEntry]
  /\ storedLastSeenItemId = [s \in WatcherSubscriptions |-> NoLastSeen]
  /\ subscriptionStored = [s \in WatcherSubscriptions |-> TRUE]
  /\ listedItems = 0
  /\ watcherPc = "idle"
  /\ tickNow = 0
  /\ subLastSeenItemId = NoLastSeen
  /\ newItems = <<>>
  /\ itemIndex = 0
  /\ lastHandledItemId = NoLastSeen
  /\ pendingLastSeenItemId = NoLastSeen
  /\ postedCount = [i \in WatcherItems |-> 0]
  /\ buyCount = [i \in WatcherItems |-> 0]
  /\ polledSinceBackoff = FALSE

InitLater == InitSetup /\ InitNotifier /\ InitWatcher

InitOutside ==
  /\ InitClient /\ InitSubmit /\ InitActions /\ InitClassify /\ InitTransport /\ InitRequests
  /\ InitLater

NoSent == [kind |-> "none"]
NoResponse == [kind |-> "none"]
NoWindow == [kind |-> "none"]
Window(t) == [kind |-> "window", until |-> t]

\* a refresh (the async body of lines 80-138) is between two of its awaits
Refreshing(s) == pc[s] \in {"account", "refresh", "write"}
InProgress(s) == Refreshing(s) \/ pc[s] = "joined"
RefreshInProgress(u) == \E s \in Slots : user[s] = u /\ Refreshing(s)

InitWith(rows) ==
  /\ now = 0
  /\ accounts \in [Users -> InitialRows]
  /\ \A u \in Users : accounts[u] \in rows[u]
  /\ cache = [u \in Users |-> NoEntry]
  /\ blocked = [u \in Users |-> NoEntry]
  /\ reauthRequired = [u \in Users |-> NoEntry]
  /\ inFlight = [u \in Users |-> NoSlot]
  /\ pc = [s \in Slots |-> "idle"]
  /\ user = [s \in Slots |-> "u1"]
  /\ path = [s \in Slots |-> "none"]
  /\ sent = [s \in Slots |-> NoSent]
  /\ refreshed = [s \in Slots |-> NoResponse]
  /\ joinedTo = [s \in Slots |-> NoSlot]
  /\ ret = [s \in Slots |-> NoResult]
  /\ issued = [s \in Slots |-> FALSE]
  /\ raced = [u \in Users |-> FALSE]
  /\ clearedSince = [s \in Slots |-> FALSE]
  /\ covered = [s \in Slots |-> {}]
  /\ clean = [s \in Slots |-> {}]
  /\ arrivedDuring = [s \in Slots |-> {}]
  /\ afterClear = [u \in Users |-> FALSE]
  /\ nBlocked = [u \in Users |-> 0]
  /\ blockTried = [u \in Users |-> FALSE]
  /\ igUntil = [u \in Users |-> NoWindow]
  /\ InitOutside

\* only u1 has an account and callers
Init == InitWith([u \in Users |-> IF u = "u1" THEN InitialRows ELSE {NoAccount}])
\* both users have callers; the rows are those a refresh gets through
InitUsers == InitWith([u \in Users |-> {NoAccount, AccountRow("de", encryptToken("r1"))}])
InitBackoff == InitWith([u \in Users |->
                 IF u = "u1" THEN {AccountRow("de", encryptToken("r1"))} ELSE {NoAccount}])

\* ------------------------------------------------------------- backoff
\* bumpBackoff with the delay doubling from 30 s at the first strike
bumpBackoffLate(prev, t) ==
  LET strikes == Min((IF prev = NoEntry THEN 0 ELSE prev.strikes) + 1, MAX_STRIKES)
      delayMs == Min(BACKOFF_CAP_MS, BACKOFF_BASE_MS * 2 ^ (strikes - 1))
  IN  BlockState(t + delayMs, strikes)

\* bumpBackoff(prev) at Date.now() = t
bumpBackoff(prev, t) ==
  LET strikes == Min((IF prev = NoEntry THEN 0 ELSE prev.strikes) + 1, MAX_STRIKES)
      delayMs == Min(BACKOFF_CAP_MS, BACKOFF_BASE_MS * 2 ^ strikes)
  IN  BlockState(t + delayMs, strikes)

\* ---------------------------------------------- the guards of lines 58-78
CacheFresh(u) == cache[u] # NoEntry /\ now < cache[u].expiresAtMs - SAFETY_MARGIN_MS
BlockActive(u) == blocked[u] # NoEntry /\ now < blocked[u].until
ReauthActive(u) == reauthRequired[u] # NoEntry /\ now < reauthRequired[u].until

\* ------------------------------------------------ completion of a promise
\* The promise of owner s settles with r: the owner's `finally` deletes the
\* user's in-flight entry whoever set it (line 144), and the owner and every
\* caller that was handed this promise (line 78) complete with r.
SettlesLeavesEntry(s, r) ==
  LET done == {t \in Slots : t = s \/ (pc[t] = "joined" /\ joinedTo[t] = s)}
  IN  /\ pc' = [t \in Slots |-> IF t \in done THEN "done" ELSE pc[t]]
      /\ ret' = [t \in Slots |-> IF t \in done THEN r ELSE ret[t]]
      /\ joinedTo' = [t \in Slots |-> IF t \in done THEN NoSlot ELSE joinedTo[t]]
      /\ UNCHANGED inFlight
      /\ sent' = [sent EXCEPT ![s] = NoSent]
      /\ refreshed' = [refreshed EXCEPT ![s] = NoResponse]

Settles(s, r) ==
  LET done == {t \in Slots : t = s \/ (pc[t] = "joined" /\ joinedTo[t] = s)}
  IN  /\ pc' = [t \in Slots |-> IF t \in done THEN "done" ELSE pc[t]]
      /\ ret' = [t \in Slots |-> IF t \in done THEN r ELSE ret[t]]
      /\ joinedTo' = [t \in Slots |-> IF t \in done THEN NoSlot ELSE joinedTo[t]]
      /\ inFlight' = [inFlight EXCEPT ![user[s]] = NoSlot]
      /\ sent' = [sent EXCEPT ![s] = NoSent]
      /\ refreshed' = [refreshed EXCEPT ![s] = NoResponse]

\* a call that completes before its first await
Returns(s, u, p, r) ==
  /\ pc' = [pc EXCEPT ![s] = "done"]
  /\ path' = [path EXCEPT ![s] = p]
  /\ ret' = [ret EXCEPT ![s] = r]
  /\ UNCHANGED <<joinedTo, inFlight>>

\* ---------------------------------------------------------------- history
\* the earlier calls for u whose result covers a call that starts now: still
\* running, or completed with a token that is more than the margin from expiry
Covering(s, u) ==
  {t \in Slots \ {s} :
     /\ user[t] = u
     /\ \/ InProgress(t)
        \/ /\ pc[t] = "done"
           /\ ret[t].kind = "ok"
           /\ now < ret[t].value.expiresAtMs - SAFETY_MARGIN_MS}

StartHistory(s, u) ==
  /\ clearedSince' = [clearedSince EXCEPT ![s] = FALSE]
  /\ covered' = [t \in Slots |-> IF t = s THEN Covering(s, u) ELSE covered[t] \ {s}]
  /\ clean' = [t \in Slots |->
                 IF t = s THEN {x \in Covering(s, u) : ~clearedSince[x]} ELSE clean[t] \ {s}]
  /\ issued' = [issued EXCEPT ![s] = FALSE]
  /\ arrivedDuring' = [t \in Slots |->
                         IF t = s THEN {x \in Slots \ {s} : user[x] = u /\ Refreshing(x)}
                         ELSE arrivedDuring[t] \ {s}]
  /\ afterClear' = [afterClear EXCEPT ![u] = FALSE]
  /\ blockTried' = [blockTried EXCEPT ![u] = @ \/ (blocked[u] # NoEntry /\ now >= blocked[u].until)]
  /\ UNCHANGED <<raced, nBlocked, igUntil>>

\* --------------------------------------------------------------- actions
\* getAccessTokenForUser, from its entry to its first await (lines 58-81, 140-142)
getAccessTokenForUser(s, u) ==
  /\ pc[s] \in {"idle", "done"}
  /\ user' = [user EXCEPT ![s] = u]
  /\ StartHistory(s, u)
  /\ UNCHANGED <<now, accounts, cache, blocked, reauthRequired, sent, refreshed>>
  /\ IF CacheFresh(u) THEN Returns(s, u, "cache", Ok(cache[u]))
     ELSE IF BlockActive(u) THEN Returns(s, u, "blocked", Err(ERR_BLOCKED_FAST))
     ELSE IF ReauthActive(u) THEN Returns(s, u, "reauth", Err(reauthRequiredError))
     ELSE IF inFlight[u] # NoSlot
       THEN /\ pc' = [pc EXCEPT ![s] = "joined"]
            /\ path' = [path EXCEPT ![s] = "joined"]
            /\ joinedTo' = [joinedTo EXCEPT ![s] = inFlight[u]]
            /\ ret' = [ret EXCEPT ![s] = NoResult]
            /\ UNCHANGED inFlight
       ELSE /\ pc' = [pc EXCEPT ![s] = "account"]
            /\ path' = [path EXCEPT ![s] = "owner"]
            /\ inFlight' = [inFlight EXCEPT ![u] = s]
            /\ ret' = [ret EXCEPT ![s] = NoResult]
            /\ UNCHANGED joinedTo

\* the account query resolves (lines 81-102): the row is checked, decrypted and
\* the refresh call is sent; dbOk = FALSE is the query rejecting
AccountLoaded(s, dbOk) ==
  LET u == user[s]
      row == accounts[u]
  IN  /\ pc[s] = "account"
      /\ UNCHANGED <<now, accounts, cache, blocked, reauthRequired, user, path>>
      /\ UNCHANGED <<raced, clearedSince, covered, clean, arrivedDuring, afterClear>>
      /\ UNCHANGED <<nBlocked, blockTried, igUntil>>
      /\ IF ~dbOk THEN Settles(s, Thrown) /\ UNCHANGED issued
         ELSE IF row = NoAccount THEN Settles(s, Err(ERR_NO_ACCOUNT)) /\ UNCHANGED issued
         ELSE IF parseRegion(row.region).kind = "err"
           THEN Settles(s, parseRegion(row.region)) /\ UNCHANGED issued
         ELSE IF decryptToken(row.encryptedRefreshToken) = DecryptThrows
           THEN Settles(s, Err(ERR_DECRYPT)) /\ UNCHANGED issued
         ELSE /\ sent' = [sent EXCEPT ![s] =
                    [kind |-> "sent",
                     refreshToken |-> decryptToken(row.encryptedRefreshToken),
                     region |-> parseRegion(row.region).value]]
              /\ issued' = [issued EXCEPT ![s] = TRUE]
              /\ pc' = [pc EXCEPT ![s] = "refresh"]
              /\ UNCHANGED <<ret, joinedTo, inFlight, refreshed>>

\* ------------------------------------------------ the token endpoint
TokenResponse(a, r, e, c) ==
  [kind |-> "response", accessToken |-> a, refreshToken |-> r, expiresIn |-> e, createdAt |-> c]
ErrorResponse(m) == [kind |-> "error", message |-> m]

\* created_at (seconds): the server issues the token at the current time
CreatedAts == {now \div 1000}

ServerResponses ==
  {TokenResponse(p[1], p[2], e, c) : p \in TokenPairs, e \in ExpiresIns, c \in CreatedAts}
  \cup {ErrorResponse(m) : m \in ServerErrors}

\* the answers of a run that only tells the outcomes apart
FewResponses ==
  {TokenResponse("a1", "r1", 3600, c) : c \in CreatedAts}
  \cup {ErrorResponse(m) : m \in
          { <<"Blockiert">>,
            <<"Authorization", "grant", "is", "invalid">>,
            <<"Vinted", "request", "failed", "(500)", "Internal", "server", "error">> }}

\* lines 117-124: the token the refresh caches and returns
NextToken(v, region) ==
  CachedToken(v.accessToken, v.refreshToken, (v.createdAt + v.expiresIn) * 1000, region)

\* a comparison that always sees a new refresh token
RotatedAlways(received, sentToken) == TRUE

\* line 128: the server rotated the refresh token
Rotated(received, sentToken) == received # sentToken

\* a blocked branch that also drops the reauth entry
BlockedFailureForgets(s, message) ==
  LET u == user[s]
  IN  /\ blocked' = [blocked EXCEPT ![u] = bumpBackoff(blocked[u], now)]
      /\ reauthRequired' = [reauthRequired EXCEPT ![u] = NoEntry]
      /\ Settles(s, Err(message))
      /\ nBlocked' = [nBlocked EXCEPT ![u] = @ + 1]
      /\ blockTried' = [blockTried EXCEPT ![u] = FALSE]
      /\ UNCHANGED <<cache, igUntil>>

\* lines 104-107
BlockedFailure(s, message) ==
  LET u == user[s]
  IN  /\ blocked' = [blocked EXCEPT ![u] = bumpBackoff(blocked[u], now)]
      /\ Settles(s, Err(message))
      /\ nBlocked' = [nBlocked EXCEPT ![u] = @ + 1]
      /\ blockTried' = [blockTried EXCEPT ![u] = FALSE]
      /\ UNCHANGED <<cache, reauthRequired, igUntil>>

\* lines 108-113
InvalidGrantFailure(s) ==
  LET u == user[s]
  IN  /\ reauthRequired' = [reauthRequired EXCEPT ![u] = ReauthState(now + REAUTH_COOLDOWN_MS)]
      /\ cache' = [cache EXCEPT ![u] = NoEntry]
      /\ blocked' = [blocked EXCEPT ![u] = NoEntry]
      /\ Settles(s, Err(reauthRequiredError))
      /\ nBlocked' = [nBlocked EXCEPT ![u] = 0]
      /\ blockTried' = [blockTried EXCEPT ![u] = FALSE]
      /\ igUntil' = [igUntil EXCEPT ![u] = Window(now + REAUTH_COOLDOWN_MS)]

\* a generic failure that counts as a strike
OtherFailureStrikes(s) ==
  LET u == user[s]
  IN  /\ blocked' = [blocked EXCEPT ![u] = bumpBackoff(blocked[u], now)]
      /\ Settles(s, Err(ERR_REFRESH_FAILED))
      /\ UNCHANGED <<cache, reauthRequired, nBlocked, blockTried, igUntil>>

\* line 114
OtherFailure(s) ==
  /\ Settles(s, Err(ERR_REFRESH_FAILED))
  /\ UNCHANGED <<cache, blocked, reauthRequired, nBlocked, blockTried, igUntil>>

\* lines 135-137, reached without a write-back
SucceedsUnrotated(s, v) ==
  LET u == user[s]
  IN  /\ blocked' = [blocked EXCEPT ![u] = NoEntry]
      /\ reauthRequired' = [reauthRequired EXCEPT ![u] = NoEntry]
      /\ Settles(s, Ok(NextToken(v, sent[s].region)))
      /\ nBlocked' = [nBlocked EXCEPT ![u] = 0]
      /\ blockTried' = [blockTried EXCEPT ![u] = FALSE]
      /\ UNCHANGED igUntil

\* lines 128-133: db.update is sent and awaited
StartsWriteBack(s, v) ==
  /\ pc' = [pc EXCEPT ![s] = "write"]
  /\ refreshed' = [refreshed EXCEPT ![s] = v]
  /\ UNCHANGED <<ret, joinedTo, inFlight, sent, blocked, reauthRequired>>
  /\ UNCHANGED <<nBlocked, blockTried, igUntil>>

\* the refresh call resolves with resp (lines 98-133)
RefreshDone(s, resp) ==
  LET u == user[s]
  IN  /\ pc[s] = "refresh"
      /\ UNCHANGED <<now, accounts, user, path>>
      /\ UNCHANGED <<issued, raced, clearedSince, covered, clean, arrivedDuring, afterClear>>
      /\ IF resp.kind = "error"
           THEN /\ IF isBlockedError(resp.message)
                     THEN nBlocked[u] < MaxBlockedRuns /\ BlockedFailure(s, resp.message)
                   ELSE IF isInvalidGrantError(resp.message) THEN InvalidGrantFailure(s)
                   ELSE OtherFailure(s)
           ELSE /\ cache' = [cache EXCEPT ![u] = NextToken(resp, sent[s].region)]
                /\ IF Rotated(resp.refreshToken, sent[s].refreshToken)
                     THEN StartsWriteBack(s, resp)
                     ELSE SucceedsUnrotated(s, resp)

\* db.update(...).set({encryptedRefreshToken}).where(discordUserId = u)
WriteRefreshToken(rows, u, token) ==
  IF rows[u] = NoAccount THEN rows
  ELSE [rows EXCEPT ![u].encryptedRefreshToken = encryptToken(token)]

\* the write-back resolves (lines 129-137); dbOk = FALSE is db.update rejecting
WriteDone(s, dbOk) ==
  LET u == user[s]
  IN  /\ pc[s] = "write"
      /\ UNCHANGED <<now, cache, user, path>>
      /\ UNCHANGED <<issued, raced, clearedSince, covered, clean, arrivedDuring, afterClear, igUntil>>
      /\ IF dbOk
           THEN /\ accounts' = WriteRefreshToken(accounts, u, refreshed[s].refreshToken)
                /\ blocked' = [blocked EXCEPT ![u] = NoEntry]
                /\ reauthRequired' = [reauthRequired EXCEPT ![u] = NoEntry]
                /\ Settles(s, Ok(NextToken(refreshed[s], sent[s].region)))
                /\ nBlocked' = [nBlocked EXCEPT ![u] = 0]
                /\ blockTried' = [blockTried EXCEPT ![u] = FALSE]
           ELSE /\ Settles(s, Thrown)
                /\ UNCHANGED <<accounts, blocked, reauthRequired, nBlocked, blockTried>>

\* a delete that empties the map
MapDeleteAll(map, u) == [v \in DOMAIN map |-> NoEntry]

\* map.delete(discordUserId)
MapDelete(map, u) == [map EXCEPT ![u] = NoEntry]

\* clearTokenStateForUser (lines 48-53)
clearTokenStateForUser(u) ==
  /\ cache' = MapDelete(cache, u)
  /\ blocked' = MapDelete(blocked, u)
  /\ reauthRequired' = MapDelete(reauthRequired, u)
  /\ inFlight' = [inFlight EXCEPT ![u] = NoSlot]
  /\ raced' = [raced EXCEPT ![u] = @ \/ RefreshInProgress(u)]
  /\ clearedSince' = [s \in Slots |-> clearedSince[s] \/ (user[s] = u /\ pc[s] # "idle")]
  /\ nBlocked' = [nBlocked EXCEPT ![u] = 0]
  /\ blockTried' = [blockTried EXCEPT ![u] = FALSE]
  /\ igUntil' = [igUntil EXCEPT ![u] = NoWindow]
  /\ afterClear' = [afterClear EXCEPT ![u] = @ \/ igUntil[u] # NoWindow]
  /\ UNCHANGED <<now, accounts, pc, user, path, sent, refreshed, joinedTo, ret>>
  /\ UNCHANGED <<issued, covered, clean, arrivedDuring>>

\* upsertAccountFromRefreshToken, its write of the verified token
upsertAccount(u, token) ==
  /\ accounts' = [accounts EXCEPT ![u] = AccountRow("de", encryptToken(token))]
  /\ UNCHANGED <<now, cache, blocked, reauthRequired, inFlight,
                 pc, user, path, sent, refreshed, joinedTo, ret,
                 issued, raced, clearedSince, covered, clean, arrivedDuring, afterClear,
                 nBlocked, blockTried, igUntil>>

\* time passes
Tick(d, horizon) ==
  /\ now + d <= horizon
  /\ d = FineStep => (now + d) % CoarseStep <= MaxFine
  /\ now' = now + d
  /\ UNCHANGED <<accounts, cache, blocked, reauthRequired, inFlight,
                 pc, user, path, sent, refreshed, joinedTo, ret,
                 issued, raced, clearedSince, covered, clean, arrivedDuring, afterClear,
                 nBlocked, blockTried, igUntil>>

\* two callers of one user, every answer of the token endpoint
Next ==
  \/ \E s \in Slots : getAccessTokenForUser(s, "u1") /\ UNCHANGED outsideVars
  \/ \E s \in Slots, dbOk \in BOOLEAN : AccountLoaded(s, dbOk) /\ UNCHANGED outsideVars
  \/ \E s \in Slots, resp \in ServerResponses : RefreshDone(s, resp) /\ UNCHANGED outsideVars
  \/ \E s \in Slots, dbOk \in BOOLEAN : WriteDone(s, dbOk) /\ UNCHANGED outsideVars
  \/ \E u \in Users : clearTokenStateForUser(u) /\ UNCHANGED outsideVars
  \/ \E token \in RefreshTokens : upsertAccount("u1", token) /\ UNCHANGED outsideVars
  \/ \E d \in TimeSteps : Tick(d, MaxNow) /\ UNCHANGED outsideVars

Spec == Init /\ [][Next]_vars

\* one caller for each of two users
NextUsers ==
  \/ getAccessTokenForUser("s1", "u1") /\ UNCHANGED outsideVars
  \/ getAccessTokenForUser("s2", "u2") /\ UNCHANGED outsideVars
  \/ \E s \in Slots, dbOk \in BOOLEAN : AccountLoaded(s, dbOk) /\ UNCHANGED outsideVars
  \/ \E s \in Slots, resp \in FewResponses : RefreshDone(s, resp) /\ UNCHANGED outsideVars
  \/ \E s \in Slots, dbOk \in BOOLEAN : WriteDone(s, dbOk) /\ UNCHANGED outsideVars
  \/ \E u \in Users : clearTokenStateForUser(u) /\ UNCHANGED outsideVars
  \/ \E u \in Users : upsertAccount(u, "r2") /\ UNCHANGED outsideVars
  \/ Tick(CoarseStep, MaxNow) /\ UNCHANGED outsideVars

SpecUsers == InitUsers /\ [][NextUsers]_vars

\* two callers of one user over the hours that seven backoffs take; the account
\* holds r1 and FewResponses answers r1, so no write-back starts
NextBackoff ==
  \/ \E s \in Slots : getAccessTokenForUser(s, "u1") /\ UNCHANGED outsideVars
  \/ \E s \in Slots : AccountLoaded(s, TRUE) /\ UNCHANGED outsideVars
  \/ \E s \in Slots, resp \in FewResponses : RefreshDone(s, resp) /\ UNCHANGED outsideVars
  \/ clearTokenStateForUser("u1") /\ UNCHANGED outsideVars
  \/ \E d \in TimeSteps : Tick(d, MaxLongNow) /\ UNCHANGED outsideVars

SpecBackoff == InitBackoff /\ [][NextBackoff]_vars

\* handleSetupAccountModal (vinted-setup-modal.ts, lines 21-33): the stored
\* refresh token is replaced and, once the upsert has resolved, the user's
\* token state is cleared
handleSetupAccountModal(u, token) ==
  /\ accounts' = [accounts EXCEPT ![u] = AccountRow("de", encryptToken(token))]
  /\ cache' = MapDelete(cache, u)
  /\ blocked' = MapDelete(blocked, u)
  /\ reauthRequired' = MapDelete(reauthRequired, u)
  /\ inFlight' = [inFlight EXCEPT ![u] = NoSlot]
  /\ raced' = [raced EXCEPT ![u] = @ \/ RefreshInProgress(u)]
  /\ clearedSince' = [s \in Slots |-> clearedSince[s] \/ (user[s] = u /\ pc[s] # "idle")]
  /\ nBlocked' = [nBlocked EXCEPT ![u] = 0]
  /\ blockTried' = [blockTried EXCEPT ![u] = FALSE]
  /\ igUntil' = [igUntil EXCEPT ![u] = NoWindow]
  /\ afterClear' = [afterClear EXCEPT ![u] = @ \/ igUntil[u] # NoWindow]
  /\ UNCHANGED <<now, pc, user, path, sent, refreshed, joinedTo, ret>>
  /\ UNCHANGED <<issued, covered, clean, arrivedDuring>>

\* two callers of one user whose token state is cleared by setup alone
NextSetupModal ==
  \/ \E s \in Slots : getAccessTokenForUser(s, "u1") /\ UNCHANGED outsideVars
  \/ \E s \in Slots : AccountLoaded(s, TRUE) /\ UNCHANGED outsideVars
  \/ \E s \in Slots, resp \in ServerResponses : RefreshDone(s, resp) /\ UNCHANGED outsideVars
  \/ \E s \in Slots, dbOk \in BOOLEAN : WriteDone(s, dbOk) /\ UNCHANGED outsideVars
  \/ handleSetupAccountModal("u1", "r2") /\ UNCHANGED outsideVars
  \/ Tick(CoarseStep, MaxNow) /\ UNCHANGED outsideVars

SpecSetupModal == InitBackoff /\ [][NextSetupModal]_vars

\* the answers of FewResponses and one that rotates the refresh token, so
\* that the write-back runs
LiveResponses ==
  FewResponses \cup {TokenResponse("a2", "r2", 3600, c) : c \in CreatedAts}

\* two callers of one user, database calls that may reject, and the token
\* state cleared at any time
NextLive ==
  \/ \E s \in Slots : getAccessTokenForUser(s, "u1") /\ UNCHANGED outsideVars
  \/ \E s \in Slots, dbOk \in BOOLEAN : AccountLoaded(s, dbOk) /\ UNCHANGED outsideVars
  \/ \E s \in Slots, resp \in LiveResponses : RefreshDone(s, resp) /\ UNCHANGED outsideVars
  \/ \E s \in Slots, dbOk \in BOOLEAN : WriteDone(s, dbOk) /\ UNCHANGED outsideVars
  \/ clearTokenStateForUser("u1") /\ UNCHANGED outsideVars
  \/ Tick(CoarseStep, MaxNow) /\ UNCHANGED outsideVars

\* the awaited call of a running refresh settles: the account query, the
\* request to the token endpoint or the write-back resolves or rejects
AwaitSettles(s) ==
  \/ \E dbOk \in BOOLEAN : AccountLoaded(s, dbOk) /\ UNCHANGED outsideVars
  \/ \E resp \in LiveResponses : RefreshDone(s, resp) /\ UNCHANGED outsideVars
  \/ \E dbOk \in BOOLEAN : WriteDone(s, dbOk) /\ UNCHANGED outsideVars

\* Every awaited call settles in the end (the database driver and the HTTP
\* transport answer or time out) and the event loop then runs the
\* continuation: weak fairness for the steps of each running refresh.  Calls
\* of getAccessTokenForUser, clears and the clock are under no obligation.
SpecLive ==
  InitBackoff /\ [][NextLive]_vars /\ \A s \in Slots : WF_vars(AwaitSettles(s))

\* ============================================ VintedClient.refreshToken
\* { retries: 2 }: pRetry runs the callback once and at most twice more
RETRIES == 2

\* what fetchJson can answer to the token request
FetchErrors ==
  ServerErrors \cup
    { <<"Vinted", "request", "failed", "(502)", "Bad", "gateway">>,
      <<"Failed", "to", "parse", "Vinted", "response">> }

\* the JSON bodies: a token, an errors payload, a body without the token fields
FetchBodies ==
  {[kind |-> "json", errors |-> FALSE, typed |-> TRUE, token |-> v] :
     v \in {TokenResponse("a1", "r1", 3600, 1)}}
  \cup {[kind |-> "json", errors |-> TRUE, typed |-> ty, token |-> NoResponse] : ty \in BOOLEAN}
  \cup {[kind |-> "json", errors |-> FALSE, typed |-> FALSE, token |-> NoResponse]}

FetchOutcomes == {ErrorResponse(m) : m \in FetchErrors} \cup FetchBodies

ERR_PAYLOAD == <<"Vinted", "request", "failed", "(payload", "error)">>
ERR_UNEXPECTED_TOKEN == <<"Unexpected", "token", "response", "from", "Vinted">>

\* a callback that never throws AbortError
AbortsRetryNever(message) == FALSE

\* lines 1709-1716: the errors the callback rethrows as AbortError
AbortsRetry(message) ==
  Includes(ToLowerCase(message), <<"blockiert">>) \/ isInvalidGrantError(message)

\* lines 1730-1750: the Result made of the body pRetry resolved with
TokenResult(body) ==
  IF body.errors THEN Err(ERR_PAYLOAD)
  ELSE IF ~body.typed THEN Err(ERR_UNEXPECTED_TOKEN)
  ELSE Ok(body.token)

\* refreshToken is called: pRetry starts the first attempt (lines 1690-1708)
refreshToken ==
  /\ rtPc \in {"idle", "done"}
  /\ rtPc' = "fetch"
  /\ rtAttempts' = 1
  /\ rtLog' = <<>>
  /\ rtLastError' = NoMessage
  /\ rtResult' = NoResult

\* fetchJson resolves with o (lines 1697-1750)
FetchResolves(o) ==
  /\ rtPc = "fetch"
  /\ rtLog' = Append(rtLog, o)
  /\ IF o.kind = "error"
       THEN /\ rtLastError' = o.message
            /\ IF ~AbortsRetry(o.message) /\ rtAttempts < 1 + RETRIES
                 THEN /\ rtAttempts' = rtAttempts + 1
                      /\ UNCHANGED <<rtPc, rtResult>>
                 ELSE /\ rtPc' = "done"
                      /\ rtResult' = Err(o.message)
                      /\ UNCHANGED rtAttempts
       ELSE /\ rtPc' = "done"
            /\ rtResult' = TokenResult(o)
            /\ UNCHANGED <<rtAttempts, rtLastError>>

NextRefreshCall ==
  \/ refreshToken /\ UNCHANGED exceptClient
  \/ \E o \in FetchOutcomes : FetchResolves(o) /\ UNCHANGED exceptClient

SpecRefreshCall == InitBackoff /\ [][NextRefreshCall]_vars

\* ================================== VintedClient.submitCheckoutPurchase

\* error messages fetchJson answers a checkout PUT with
PutErrors ==
  { <<"Vinted", "request", "failed", "(401)", "No", "body">>,
    <<"Vinted", "request", "failed", "(403)", "No", "body">>,
    <<"Vinted", "request", "failed", "(400)", "access_denied">>,
    <<"Vinted", "request", "failed", "(500)", "No", "body">>,
    <<"Vinted", "hat", "die", "Anfrage", "blockiert">> }

NoComponents == "null"

\* the status strings of a checkout payload ("none": no string status)
CheckoutStatuses == {"none", "pending", "paid"}

\* JSON bodies of a checkout PUT: whether the payload carries an errors
\* field, its has_bought flag, its status and its components ("null":
\* none that extractCheckoutComponentsPayload can reuse)
PutBodies ==
  [kind : {"json"}, errors : BOOLEAN, has_bought : BOOLEAN,
   status : CheckoutStatuses, components : {NoComponents, "c1"}]

PutOutcomes == {ErrorResponse(m) : m \in PutErrors} \cup PutBodies

shouldRetryWithAuthorizationAlways(message) == TRUE

\* lines 192-195
shouldRetryWithAuthorization(message) ==
  \/ Includes(ToLowerCase(message), <<"(401)">>)
  \/ Includes(ToLowerCase(message), <<"(403)">>)
  \/ Includes(ToLowerCase(message), <<"access_denied">>)

\* lines 1555-1586: a flag or a status string that says the purchase is paid
isCheckoutPurchaseCompleted(payload) ==
  payload.has_bought \/ payload.status \in {"paid"}

\* lines 1468-1554
extractCheckoutComponentsPayload(payload) == payload.components

\* lines 212-283, for the bodies above: the message of an errors payload
extractErrorsPayloadMessage(payload) ==
  IF payload.errors THEN ERR_PAYLOAD ELSE NoMessage

sendsSecondAttemptAlways(payload) ==
  extractCheckoutComponentsPayload(payload) # NoComponents

\* lines 2054-2074: the first answer neither completed the purchase nor
\* came without reusable components
sendsSecondAttempt(payload) ==
  /\ ~isCheckoutPurchaseCompleted(payload)
  /\ extractCheckoutComponentsPayload(payload) # NoComponents

Put(round, authorization, components) ==
  [round |-> round, authorization |-> authorization, components |-> components]

Purchased(b) == [kind |-> "ok", purchased |-> b]

\* the body sendCheckoutUpdate sends in the current round
RoundBody == scPuts[Len(scPuts)].components

\* submitCheckoutPurchase is called; after the session warm-up (a GET)
\* the first sendCheckoutUpdate sends its primary PUT with no components
\* (lines 2008-2024, 2051)
submitCheckoutPurchase ==
  /\ scPc \in {"idle", "done"}
  /\ scPc' = "primary"
  /\ scRound' = 1
  /\ scPuts' = <<Put(1, FALSE, "[]")>>
  /\ scAnswers' = <<>>
  /\ scResult' = NoResult

\* sendCheckoutUpdate resolved with the JSON value: lines 2052-2088
RoundOk(payload) ==
  IF scRound = 1 /\ sendsSecondAttempt(payload)
    THEN /\ scPc' = "primary"
         /\ scRound' = 2
         /\ scPuts' = Append(scPuts,
                         Put(2, FALSE, extractCheckoutComponentsPayload(payload)))
         /\ UNCHANGED scResult
    ELSE /\ scPc' = "done"
         /\ scResult' = Purchased(isCheckoutPurchaseCompleted(payload))
         /\ UNCHANGED <<scRound, scPuts>>

\* the json of sendCheckoutUpdate is o: lines 2042-2045, then 2052 / 2077
RoundResolves(o) ==
  IF o.kind = "error"
    THEN /\ scPc' = "done"
         /\ scResult' = Err(o.message)
         /\ UNCHANGED <<scRound, scPuts>>
    ELSE IF extractErrorsPayloadMessage(o) # NoMessage
      THEN /\ scPc' = "done"
           /\ scResult' = Err(extractErrorsPayloadMessage(o))
           /\ UNCHANGED <<scRound, scPuts>>
      ELSE RoundOk(o)

\* the primary PUT of a round is answered (lines 2015-2041)
PrimaryResolves(o) ==
  /\ scPc = "primary"
  /\ scAnswers' = Append(scAnswers, o)
  /\ IF o.kind = "error" /\ shouldRetryWithAuthorization(o.message)
       THEN /\ scPc' = "authorized"
            /\ scPuts' = Append(scPuts, Put(scRound, TRUE, RoundBody))
            /\ UNCHANGED <<scRound, scResult>>
       ELSE RoundResolves(o)

\* the PUT repeated with the Authorization header is answered (lines 2027-2040)
AuthorizedResolves(o) ==
  /\ scPc = "authorized"
  /\ scAnswers' = Append(scAnswers, o)
  /\ RoundResolves(o)

NextSubmit ==
  \/ submitCheckoutPurchase /\ UNCHANGED exceptSubmit
  \/ \E o \in PutOutcomes : PrimaryResolves(o) /\ UNCHANGED exceptSubmit
  \/ \E o \in PutOutcomes : AuthorizedResolves(o) /\ UNCHANGED exceptSubmit

SpecSubmit == InitBackoff /\ [][NextSubmit]_vars

\* ============ attemptCheckoutBuild, attemptInstantBuy, attemptMakeOffer

\* ------------------------------------------ classifyCheckoutErrorMessage
CaptchaUrl == "https://geo.captcha-delivery.com/captcha/?initialCid=x"

\* error messages the Vinted client answers a checkout or offer call with
MSG_BLOCKED == <<"Vinted", "hat", "die", "Anfrage", "blockiert">>
MSG_CAPTCHA == <<"Vinted", "request", "failed", "(403)", CaptchaUrl>>
MSG_DENIED == <<"Vinted", "request", "failed", "(403)", "access_denied">>
MSG_DENIED_CAPTCHA == <<"Vinted", "request", "failed", "(401)", "access_denied", CaptchaUrl>>
MSG_PICKUP == <<"Vinted", "request", "failed", "(422)", "pickup", "point", "invalid">>
MSG_FAILED == <<"Vinted", "request", "failed", "(500)", "Internal", "server", "error">>
MSG_DENIED_500 == <<"Vinted", "request", "failed", "(500)", "access_denied">>

ActionErrors ==
  {MSG_BLOCKED, MSG_CAPTCHA, MSG_DENIED, MSG_DENIED_CAPTCHA, MSG_PICKUP,
   MSG_FAILED, MSG_DENIED_500}

NoStatus == 0

StatusOfWord ==
  ("(400)" :> 400) @@ ("(401)" :> 401) @@ ("(403)" :> 403) @@
  ("(404)" :> 404) @@ ("(422)" :> 422) @@ ("(500)" :> 500)

\* part_005 lines 3-9: the first parenthesized three digits of the message
extractStatusCode(message) ==
  LET at == {i \in DOMAIN message : message[i] \in DOMAIN StatusOfWord}
  IN  IF at = {} THEN NoStatus
      ELSE StatusOfWord[message[CHOOSE i \in at : \A j \in at : i <= j]]

\* a word of the message has w as a substring
HasWord(message, w) ==
  \E i \in DOMAIN message :
    \/ message[i] = w
    \/ w = "captcha" /\ message[i] = CaptchaUrl

\* part_005 lines 11-13: lower case, then NFKD with the combining marks
\* removed (a combining accent is written ^ after its letter)
StripMarks(w) ==
  CASE w = "acce^s" -> "acces"
    [] w = "refuse^" -> "refuse"
    [] OTHER -> w

normalizeForMatch(value) == [i \in 1..Len(value) |-> StripMarks(LowerWord(value[i]))]

\* the 403 rule of lines 34-40 placed before the access-denied rule
classifyCheckoutErrorMessageBlockedFirst(message) ==
  LET lower == ToLowerCase(message)
      statusCode == extractStatusCode(message)
  IN  IF \/ \E w \in {"blockiert", "cloudflare", "captcha"} : HasWord(lower, w)
         \/ Includes(lower, <<"just", "a", "moment">>)
         \/ statusCode = 403
        THEN "blocked"
      ELSE IF /\ \/ HasWord(lower, "access_denied")
                 \/ Includes(lower, <<"access", "denied">>)
              /\ statusCode \in {401, 403, NoStatus}
        THEN "access_denied"
      ELSE IF \E w \in {"pickup", "abholpunkt", "relay", "parcel"} : HasWord(lower, w)
        THEN "invalid_pickup_point"
      ELSE "failed"

\* part_005 lines 15-58
classifyCheckoutErrorMessage(message) ==
  LET lower == ToLowerCase(message)
      normalized == normalizeForMatch(message)
      statusCode == extractStatusCode(message)
      hasAccessDeniedHint ==
        \/ HasWord(lower, "access_denied")
        \/ HasWord(lower, "\"code\":106")
        \/ Includes(lower, <<"access", "denied">>)
        \/ Includes(normalized, <<"acces", "refuse">>)
      hasPickupHint ==
        \E w \in {"pickup", "abholpunkt", "relay", "parcel"} : HasWord(lower, w)
  IN  IF hasAccessDeniedHint /\ statusCode \in {401, 403, NoStatus}
        THEN "access_denied"
      ELSE IF \/ \E w \in {"blockiert", "cloudflare", "captcha"} : HasWord(lower, w)
              \/ Includes(lower, <<"just", "a", "moment">>)
              \/ statusCode = 403
        THEN "blocked"
      ELSE IF hasPickupHint THEN "invalid_pickup_point"
      ELSE "failed"

\* ---- one evaluation of classifyCheckoutErrorMessage
\* The message is "Vinted request failed", then its status code in
\* parentheses (if any), the words of its hints, and a second parenthesized
\* number from the body (if any).
ClassifyStatusWords == {"", "(400)", "(401)", "(403)", "(404)", "(422)", "(500)"}
DeniedHints ==
  {<<>>, <<"access_denied">>, <<"Access", "Denied">>, <<"\"code\":106">>,
   <<"Acce^s", "refuse^">>}
BlockHints ==
  {<<>>, <<"Blockiert">>, <<"cloudflare">>, <<CaptchaUrl>>, <<"Just", "a", "moment">>}
PickupHints == {<<>>, <<"pickup">>, <<"Abholpunkt">>, <<"relay">>, <<"parcel">>}

ClassifyInputs ==
  [status : ClassifyStatusWords, later : {"", "(403)"},
   denied : DeniedHints, block : BlockHints, pickup : PickupHints]

Optional(w) == IF w = "" THEN <<>> ELSE <<w>>

MessageOf(input) ==
  <<"Vinted", "request", "failed">> \o Optional(input.status) \o input.pickup
    \o input.block \o input.denied \o Optional(input.later)

\* classifyCheckoutErrorMessage is called with the message of input
Classify(input) ==
  /\ clStatus = "none"
  /\ clInput' = input
  /\ clStatus' = classifyCheckoutErrorMessage(MessageOf(input))

NextClassify == \E input \in ClassifyInputs : Classify(input) /\ UNCHANGED exceptClassify

SpecClassify == InitBackoff /\ [][NextClassify]_vars

\* part_003 lines 180-184: the captcha-delivery URL in the message, or null
extractCaptchaChallengeUrl(message) ==
  IF \E i \in DOMAIN message : message[i] = CaptchaUrl THEN CaptchaUrl ELSE NoUrl

hasChallengeUrlNever(result) == FALSE

\* part_003 lines 176-178: Boolean(result.challengeUrl?.trim())
hasChallengeUrl(result) == result.challengeUrl \notin {NoUrl, "", " "}
\* ------------------------------------------ the purchase id of a checkout URL
\* A checkout URL: whether new URL() accepts it (an absolute URL), whether it
\* has a purchase_id parameter, and the characters of that parameter.
Url(absolute, present, text) ==
  [null |-> FALSE, absolute |-> absolute, present |-> present, text |-> text]
NoCheckoutUrl == [null |-> TRUE, absolute |-> FALSE, present |-> FALSE, text |-> <<>>]

CheckoutUrls ==
  { Url(TRUE, TRUE, <<"1", "2">>),
    Url(TRUE, TRUE, <<" ", "1", "2">>),
    Url(TRUE, FALSE, <<>>),
    Url(TRUE, TRUE, <<"0">>),
    Url(TRUE, TRUE, <<"-", "5">>),
    Url(TRUE, TRUE, <<"1", "2", "a">>),
    Url(FALSE, TRUE, <<"1", "2", "a">>) }

DigitOf ==
  ("0" :> 0) @@ ("1" :> 1) @@ ("2" :> 2) @@ ("3" :> 3) @@ ("4" :> 4) @@
  ("5" :> 5) @@ ("6" :> 6) @@ ("7" :> 7) @@ ("8" :> 8) @@ ("9" :> 9)

IsDigits(s) == s # <<>> /\ \A i \in DOMAIN s : s[i] \in DOMAIN DigitOf

RECURSIVE DigitsValue(_)
DigitsValue(s) ==
  IF s = <<>> THEN 0
  ELSE 10 * DigitsValue(SubSeq(s, 1, Len(s) - 1)) + DigitOf[s[Len(s)]]

\* String.prototype.trim
RECURSIVE Trim(_)
Trim(s) ==
  IF s = <<>> THEN s
  ELSE IF s[1] = " " THEN Trim(Tail(s))
  ELSE IF s[Len(s)] = " " THEN Trim(SubSeq(s, 1, Len(s) - 1))
  ELSE s

\* the longest run of digits s starts with: the (\d+) of the pattern
RECURSIVE LeadingDigits(_)
LeadingDigits(s) ==
  IF s = <<>> \/ s[1] \notin DOMAIN DigitOf THEN <<>>
  ELSE <<s[1]>> \o LeadingDigits(Tail(s))

NoBigint == [null |-> TRUE, n |-> 0]
Bigint(n) == [null |-> FALSE, n |-> n]

\* part_003 lines 186-199, for a string: BigInt(trimmed), null when it throws
parseBigintCandidate(value) ==
  LET trimmed == Trim(value)
  IN  IF trimmed = <<>> THEN NoBigint
      ELSE IF IsDigits(trimmed) THEN Bigint(DigitsValue(trimmed))
      ELSE IF trimmed[1] = "-" /\ IsDigits(Tail(trimmed))
        THEN Bigint(0 - DigitsValue(Tail(trimmed)))
      ELSE NoBigint

\* part_003 lines 201-209
extractPurchaseIdFromCheckoutUrl(checkoutUrl) ==
  IF checkoutUrl.absolute
    THEN IF checkoutUrl.present THEN parseBigintCandidate(checkoutUrl.text)
         ELSE NoBigint
    ELSE IF checkoutUrl.present /\ LeadingDigits(checkoutUrl.text) # <<>>
           THEN parseBigintCandidate(LeadingDigits(checkoutUrl.text))
           ELSE NoBigint

\* line 716, if (!purchaseId): null and 0n are falsy
NoPurchaseId(purchaseId) == purchaseId.null \/ purchaseId.n = 0

\* ------------------------------------------------- purchase id candidates
\* part_003 lines 145-156: the positive candidates, each once, in order
RECURSIVE normalizePurchaseIdCandidates(_)
normalizePurchaseIdCandidates(candidates) ==
  IF candidates = <<>> THEN <<>>
  ELSE LET before == normalizePurchaseIdCandidates(SubSeq(candidates, 1, Len(candidates) - 1))
           last == candidates[Len(candidates)]
       IN  IF last <= 0 \/ \E i \in DOMAIN before : before[i] = last
             THEN before
             ELSE Append(before, last)

\* a CheckoutBuildResult
BuildResult(status, checkoutUrl, source, candidates, challengeUrl) ==
  [status |-> status, checkoutUrl |-> checkoutUrl, source |-> source,
   purchaseIdCandidates |-> candidates, challengeUrl |-> challengeUrl]

Ready(status, checkoutUrl) == BuildResult(status, checkoutUrl, "", <<>>, NoUrl)
Failure(status, challengeUrl) == BuildResult(status, NoCheckoutUrl, "", <<>>, challengeUrl)
MissingUrl(source, id, challengeUrl) ==
  BuildResult("blocked", NoCheckoutUrl, source, <<id>>, challengeUrl)

IsReady(result) == result.status \in {"ready", "ready_without_pickup"}

\* part_003 lines 158-161
getPurchaseIdCandidatesFromCheckoutResult(result) ==
  IF result.status # "blocked" THEN <<>>
  ELSE normalizePurchaseIdCandidates(result.purchaseIdCandidates)

\* part_003 lines 163-174
withMergedPurchaseIdCandidates(base, extraCandidates) ==
  IF base.status # "blocked" THEN base
  ELSE LET merged == normalizePurchaseIdCandidates(
                       getPurchaseIdCandidatesFromCheckoutResult(base) \o extraCandidates)
       IN  IF merged = <<>> THEN base
           ELSE [base EXCEPT !.purchaseIdCandidates = merged]

\* part_003 lines 131-136
statusFromFailure(failure) == Failure(failure, NoUrl)

\* part_003 lines 486-494
shouldAttemptOptimisticSubmit(result) ==
  /\ result.status = "blocked"
  /\ ~hasChallengeUrl(result)
  /\ result.source \in {"missing_checkout_url", "fallback_missing_checkout_url"}
  /\ Len(getPurchaseIdCandidatesFromCheckoutResult(result)) > 0
\* --------------------------------------------------- what the calls answer
ItemId == 7
\* the id createConversationTransaction answers with: the item's or another
TransactionIds == {ItemId, ItemId + 2}
SellerUserIds == {0, 5}

NoPickupPoint == "null"
Account(pickup, region) == [kind |-> "ok", pickupPoint |-> pickup, region |-> region]

\* getAccessTokenForUser resolves with a token, with an error, or rejects
TokenOutcomes == {Ok("a1"), Err(ERR_REAUTH), Thrown}
\* getAccountForUser: the account, or an error
AccountOutcomes ==
  {Err(ERR_NO_ACCOUNT)} \cup
  {Account(p, g) : p \in {NoPickupPoint, "pp1"}, g \in {"de", "xx"}}
TransactionOutcomes ==
  {Err(MSG_FAILED)} \cup {[kind |-> "ok", transactionId |-> i] : i \in TransactionIds}

BuildOk(checkoutUrl, challengeUrl) ==
  [kind |-> "ok", checkoutUrl |-> checkoutUrl, challengeUrl |-> challengeUrl]
BuildOutcomes ==
  {Err(m) : m \in ActionErrors} \cup
  {BuildOk(u, NoUrl) : u \in CheckoutUrls} \cup
  {BuildOk(NoCheckoutUrl, c) : c \in {NoUrl, " ", CaptchaUrl}}

SubmitOutcomes == {Err(m) : m \in ActionErrors} \cup {Purchased(b) : b \in BOOLEAN}
OfferOutcomes == {Err(m) : m \in ActionErrors} \cup {Ok("sent")}
EstimateOutcomes == {Err(MSG_FAILED), Ok("estimate")}

Call(fn, id, pickup) == [fn |-> fn, id |-> id, pickupPoint |-> pickup]
TokenCall == Call("getAccessTokenForUser", 0, NoPickupPoint)

\* an InstantBuyResult and an OfferAttemptResult
Buy(status, challengeUrl) == [status |-> status, challengeUrl |-> challengeUrl]
Offer(wasSent, status, estimate) ==
  [sent |-> wasSent, status |-> status, estimate |-> estimate]

\* value.challengeUrl?.trim() || undefined
TrimmedChallenge(challengeUrl) ==
  IF challengeUrl \in {NoUrl, "", " "} THEN NoUrl ELSE challengeUrl

\* line 312: Boolean(account.value.pickupPoint)
hasPickupPoint == pickupPoint \notin {NoPickupPoint, ""}

\* ------------------------------------------------------------ the steps
Goto(st, call) ==
  /\ step' = st
  /\ calls' = Append(calls, call)
  /\ UNCHANGED attemptResult

Return(result) ==
  /\ step' = "done"
  /\ attemptResult' = result
  /\ UNCHANGED calls

\* one of the three exported functions is called (lines 296-305, 604-614,
\* 661-669): each first awaits getAccessTokenForUser
Attempt(fn, seller) ==
  /\ step \in {"idle", "done"}
  /\ running' = fn
  /\ sellerUserId' = seller
  /\ step' = "token"
  /\ calls' = <<TokenCall>>
  /\ answers' = <<>>
  /\ attemptResult' = NoResult
  /\ pickupPoint' = NoPickupPoint
  /\ transactionId' = 0
  /\ checkoutItemId' = 0
  /\ buildAttempts' = <<>>
  /\ firstResult' = NoResult
  /\ checkoutAttempt' = NoResult
  /\ purchaseIdCandidates' = <<>>
  /\ candidate' = 0
  /\ fallbackFlags' = NoFlags
  /\ sendFailure' = "none"

\* attemptBuildForItemId(id) starts: the first buildCheckout, with the
\* account's pickup point (lines 323, 382-389)
StartAttempt(id, pickup) ==
  /\ checkoutItemId' = id
  /\ buildAttempts' = Append(buildAttempts, id)
  /\ Goto("build", Call("buildCheckout", id, pickup))

\* after resolveTransactionId returned id: the first build attempt, or the offer
Resolved(id, pickup) ==
  /\ transactionId' = id
  /\ IF running = "attemptMakeOffer"
       THEN /\ Goto("sendOffer", Call("sendOffer", id, NoPickupPoint))
            /\ UNCHANGED <<checkoutItemId, buildAttempts>>
       ELSE StartAttempt(id, pickup)

\* resolveTransactionId, lines 211-223: without a valid seller the item id
resolveTransactionId(pickup) ==
  IF sellerUserId <= 0
    THEN Resolved(ItemId, pickup)
    ELSE /\ Goto("transaction", Call("createConversationTransaction", ItemId, NoPickupPoint))
         /\ UNCHANGED <<transactionId, checkoutItemId, buildAttempts>>

\* the first getAccessTokenForUser resolved (lines 304-305, 613-614)
TokenResolves(o) ==
  /\ step = "token"
  /\ answers' = Append(answers, o)
  /\ IF o.kind # "ok"
       THEN /\ Return(o)
            /\ UNCHANGED <<transactionId, checkoutItemId, buildAttempts>>
       ELSE IF running = "attemptMakeOffer"
         THEN resolveTransactionId(NoPickupPoint)
         ELSE /\ Goto("account", Call("getAccountForUser", 0, NoPickupPoint))
              /\ UNCHANGED <<transactionId, checkoutItemId, buildAttempts>>
  /\ UNCHANGED <<running, sellerUserId, pickupPoint, firstResult, checkoutAttempt,
                 purchaseIdCandidates, candidate, fallbackFlags, sendFailure>>

\* getAccountForUser resolved; parseRegion (lines 307-312)
AccountResolves(o) ==
  /\ step = "account"
  /\ answers' = Append(answers, o)
  /\ IF o.kind # "ok"
       THEN /\ Return(o)
            /\ UNCHANGED <<pickupPoint, transactionId, checkoutItemId, buildAttempts>>
       ELSE IF parseRegion(o.region).kind # "ok"
         THEN /\ Return(parseRegion(o.region))
              /\ UNCHANGED <<pickupPoint, transactionId, checkoutItemId, buildAttempts>>
         ELSE /\ pickupPoint' = o.pickupPoint
              /\ resolveTransactionId(o.pickupPoint)
  /\ UNCHANGED <<running, sellerUserId, firstResult, checkoutAttempt,
                 purchaseIdCandidates, candidate, fallbackFlags, sendFailure>>

\* createConversationTransaction resolved (lines 224-258)
TransactionResolves(o) ==
  /\ step = "transaction"
  /\ answers' = Append(answers, o)
  /\ Resolved(IF o.kind = "ok" THEN o.transactionId ELSE ItemId, pickupPoint)
  /\ UNCHANGED <<running, sellerUserId, pickupPoint, firstResult, checkoutAttempt,
                 purchaseIdCandidates, candidate, fallbackFlags, sendFailure>>
shouldRetryWithOriginalItemIdAlways(result) ==
  transactionId # ItemId /\ ~(result.status = "blocked" /\ hasChallengeUrl(result))

\* lines 448-453
shouldRetryWithOriginalItemId(result) ==
  /\ transactionId # ItemId
  /\ ~(result.status = "blocked" /\ hasChallengeUrl(result))
  /\ result.status \in {"blocked", "failed", "invalid_pickup_point"}

\* lines 471-483: the second result with the candidates of both attempts
MergedResult(first, second) ==
  LET mergedCandidates ==
        normalizePurchaseIdCandidates(
          getPurchaseIdCandidatesFromCheckoutResult(first)
            \o getPurchaseIdCandidatesFromCheckoutResult(second))
      mergedResult == withMergedPurchaseIdCandidates(second, mergedCandidates)
  IN  IF /\ mergedResult.status = "blocked"
         /\ mergedResult.challengeUrl = NoUrl
         /\ first.status = "blocked"
         /\ first.challengeUrl # NoUrl
        THEN [mergedResult EXCEPT !.challengeUrl = first.challengeUrl]
        ELSE mergedResult

\* lines 706-712: the result for a build that is not ready
NotReadyResult(result) ==
  Ok(Buy(result.status, IF result.status = "blocked" THEN result.challengeUrl ELSE NoUrl))

\* attemptCheckoutBuild resolved with ok(result); attemptInstantBuy goes on
\* to its next await (lines 669-730)
BuildReturns(result) ==
  /\ checkoutAttempt' = result
  /\ IF running = "attemptCheckoutBuild" THEN Return(Ok(result))
     ELSE IF ~IsReady(result)
       THEN IF shouldAttemptOptimisticSubmit(result)
              THEN Goto("fallbackToken", TokenCall)
              ELSE Return(NotReadyResult(result))
     ELSE IF NoPurchaseId(extractPurchaseIdFromCheckoutUrl(result.checkoutUrl))
       THEN Return(Ok(Buy("failed", NoUrl)))
       ELSE Goto("submitToken", TokenCall)

\* attemptBuildForItemId returned result (lines 443-484)
AttemptReturns(result) ==
  IF Len(buildAttempts) = 1
    THEN /\ firstResult' = result
         /\ IF ~IsReady(result) /\ shouldRetryWithOriginalItemId(result)
              THEN /\ StartAttempt(ItemId, pickupPoint)
                   /\ UNCHANGED checkoutAttempt
              ELSE /\ BuildReturns(result)
                   /\ UNCHANGED <<checkoutItemId, buildAttempts>>
    ELSE /\ BuildReturns(MergedResult(firstResult, result))
         /\ UNCHANGED <<checkoutItemId, buildAttempts, firstResult>>

retriesWithoutPickupNever(o) == FALSE

\* lines 408, 430: the first answer sends attemptBuildForItemId to
\* attemptFallbackWithoutPickup
retriesWithoutPickup(o) ==
  /\ hasPickupPoint
  /\ IF o.kind = "ok"
       THEN o.checkoutUrl.null /\ TrimmedChallenge(o.challengeUrl) = NoUrl
       ELSE classifyCheckoutErrorMessage(o.error) = "invalid_pickup_point"

\* lines 391-441: the result of the first buildCheckout when no retry follows
FirstAttemptResult(o) ==
  IF o.kind = "ok"
    THEN IF ~o.checkoutUrl.null THEN Ready("ready", o.checkoutUrl)
         ELSE MissingUrl("missing_checkout_url", checkoutItemId,
                         TrimmedChallenge(o.challengeUrl))
    ELSE LET firstFailure == classifyCheckoutErrorMessage(o.error)
             finalStatus == statusFromFailure(firstFailure)
             challengeUrl == extractCaptchaChallengeUrl(o.error)
         IN  IF finalStatus.status = "blocked" /\ challengeUrl # NoUrl
               THEN [finalStatus EXCEPT !.challengeUrl = challengeUrl]
               ELSE finalStatus

\* lines 326-380: the result of attemptFallbackWithoutPickup
FallbackResult(o) ==
  IF o.kind = "ok"
    THEN IF ~o.checkoutUrl.null THEN Ready("ready_without_pickup", o.checkoutUrl)
         ELSE MissingUrl("fallback_missing_checkout_url", checkoutItemId,
                         TrimmedChallenge(o.challengeUrl))
    ELSE LET fallbackFailure == classifyCheckoutErrorMessage(o.error)
         IN  IF fallbackFailure = "blocked"
               THEN Failure("blocked", extractCaptchaChallengeUrl(o.error))
             ELSE IF fallbackFailure = "access_denied"
               THEN Failure("access_denied", NoUrl)
             ELSE Failure("invalid_pickup_point", NoUrl)

\* the first buildCheckout of attemptBuildForItemId resolved (lines 382-441)
BuildResolves(o) ==
  /\ step = "build"
  /\ answers' = Append(answers, o)
  /\ IF retriesWithoutPickup(o)
       THEN /\ Goto("fallback", Call("buildCheckout", checkoutItemId, "omitted"))
            /\ UNCHANGED <<checkoutItemId, buildAttempts, firstResult, checkoutAttempt>>
       ELSE AttemptReturns(FirstAttemptResult(o))
  /\ UNCHANGED <<running, sellerUserId, pickupPoint, transactionId,
                 purchaseIdCandidates, candidate, fallbackFlags, sendFailure>>

\* the buildCheckout of attemptFallbackWithoutPickup resolved (lines 329-380)
FallbackResolves(o) ==
  /\ step = "fallback"
  /\ answers' = Append(answers, o)
  /\ AttemptReturns(FallbackResult(o))
  /\ UNCHANGED <<running, sellerUserId, pickupPoint, transactionId,
                 purchaseIdCandidates, candidate, fallbackFlags, sendFailure>>
\* a submit that is taken for a purchase whatever it answered
SubmitResultBought(o) == Ok(Buy("purchased", NoUrl))

\* lines 732-759: the result of the submit of a ready checkout
SubmitResult(o) ==
  IF o.kind = "err"
    THEN LET submitFailure == classifyCheckoutErrorMessage(o.error)
         IN  IF submitFailure = "blocked"
               THEN Ok(Buy("blocked", extractCaptchaChallengeUrl(o.error)))
             ELSE IF submitFailure = "access_denied"
               THEN Ok(Buy("access_denied", NoUrl))
             ELSE Ok(Buy("failed", NoUrl))
  ELSE IF o.purchased
    THEN IF checkoutAttempt.status = "ready_without_pickup"
           THEN Ok(Buy("purchased_without_pickup", NoUrl))
           ELSE Ok(Buy("purchased", NoUrl))
  ELSE Ok(Buy("manual_checkout_required", NoUrl))

\* the getAccessTokenForUser before the submit resolved (lines 729-738)
SubmitTokenResolves(o) ==
  /\ step = "submitToken"
  /\ answers' = Append(answers, o)
  /\ IF o.kind # "ok" THEN Return(o)
     ELSE Goto("submit",
               Call("submitCheckoutPurchase",
                    extractPurchaseIdFromCheckoutUrl(checkoutAttempt.checkoutUrl).n,
                    NoPickupPoint))
  /\ UNCHANGED <<running, sellerUserId, pickupPoint, transactionId, checkoutItemId,
                 buildAttempts, firstResult, checkoutAttempt, purchaseIdCandidates,
                 candidate, fallbackFlags, sendFailure>>

\* submitCheckoutPurchase for the ready checkout resolved (lines 732-759)
SubmitResolves(o) ==
  /\ step = "submit"
  /\ answers' = Append(answers, o)
  /\ Return(SubmitResult(o))
  /\ UNCHANGED <<running, sellerUserId, pickupPoint, transactionId, checkoutItemId,
                 buildAttempts, firstResult, checkoutAttempt, purchaseIdCandidates,
                 candidate, fallbackFlags, sendFailure>>

FlagsAfterForgets(flags, o) == flags

\* lines 540-589: what one candidate's submit adds to the flags of the loop
FlagsAfter(flags, o) ==
  IF o.kind = "ok" THEN [flags EXCEPT !.hasManualCheckoutHint = TRUE]
  ELSE LET submitFailure == classifyCheckoutErrorMessage(o.error)
           submitChallengeUrl == extractCaptchaChallengeUrl(o.error)
           seen == IF flags.challengeUrl = NoUrl /\ submitChallengeUrl # NoUrl
                     THEN [flags EXCEPT !.challengeUrl = submitChallengeUrl]
                     ELSE flags
       IN  IF submitFailure = "blocked" THEN [seen EXCEPT !.hasBlockedFailure = TRUE]
           ELSE IF submitFailure = "access_denied"
             THEN [seen EXCEPT !.hasAccessDeniedFailure = TRUE]
           ELSE [seen EXCEPT !.hasFailedFallback = TRUE]

FallbackVerdictFailed(flags) ==
  IF flags.hasManualCheckoutHint
    THEN Ok(Buy("manual_checkout_required", flags.challengeUrl))
  ELSE IF flags.hasAccessDeniedFailure THEN Ok(Buy("access_denied", NoUrl))
  ELSE IF flags.hasBlockedFailure THEN Ok(Buy("blocked", flags.challengeUrl))
  ELSE IF flags.hasFailedFallback THEN Ok(Buy("failed", flags.challengeUrl))
  ELSE NotReadyResult(checkoutAttempt)

\* lines 592-601, and lines 706-712 when the fallback returned null
FallbackVerdict(flags) ==
  IF flags.hasManualCheckoutHint
    THEN Ok(Buy("manual_checkout_required", flags.challengeUrl))
  ELSE IF flags.hasAccessDeniedFailure THEN Ok(Buy("access_denied", NoUrl))
  ELSE IF flags.hasBlockedFailure THEN Ok(Buy("blocked", flags.challengeUrl))
  ELSE IF flags.hasFailedFallback
    THEN Ok(Buy("manual_checkout_required", flags.challengeUrl))
  ELSE NotReadyResult(checkoutAttempt)

DirectSubmitCall(id) == Call("submitCheckoutPurchase", id, NoPickupPoint)

\* the getAccessTokenForUser of the direct-submit fallback resolved, and
\* attemptSubmitWithoutCheckoutUrl starts its loop (lines 676-690, 505-539)
FallbackTokenResolves(o) ==
  /\ step = "fallbackToken"
  /\ answers' = Append(answers, o)
  /\ LET normalized ==
           normalizePurchaseIdCandidates(
             getPurchaseIdCandidatesFromCheckoutResult(checkoutAttempt))
     IN  IF o.kind # "ok"
           THEN /\ Return(o)
                /\ UNCHANGED <<purchaseIdCandidates, candidate, fallbackFlags>>
         ELSE IF normalized = <<>>
           THEN /\ Return(NotReadyResult(checkoutAttempt))
                /\ UNCHANGED <<purchaseIdCandidates, candidate, fallbackFlags>>
         ELSE /\ purchaseIdCandidates' = normalized
              /\ candidate' = 1
              /\ fallbackFlags' = NoFlags
              /\ Goto("directSubmit", DirectSubmitCall(normalized[1]))
  /\ UNCHANGED <<running, sellerUserId, pickupPoint, transactionId, checkoutItemId,
                 buildAttempts, firstResult, checkoutAttempt, sendFailure>>

\* the submit of one candidate resolved (lines 533-601)
DirectSubmitResolves(o) ==
  /\ step = "directSubmit"
  /\ answers' = Append(answers, o)
  /\ IF o.kind = "ok" /\ o.purchased
       THEN /\ Return(Ok(Buy("purchased", NoUrl)))
            /\ UNCHANGED <<candidate, fallbackFlags>>
       ELSE /\ fallbackFlags' = FlagsAfter(fallbackFlags, o)
            /\ IF candidate < Len(purchaseIdCandidates)
                 THEN /\ candidate' = candidate + 1
                      /\ Goto("directSubmit",
                              DirectSubmitCall(purchaseIdCandidates[candidate + 1]))
                 ELSE /\ Return(FallbackVerdict(FlagsAfter(fallbackFlags, o)))
                      /\ UNCHANGED candidate
  /\ UNCHANGED <<running, sellerUserId, pickupPoint, transactionId, checkoutItemId,
                 buildAttempts, firstResult, checkoutAttempt, purchaseIdCandidates,
                 sendFailure>>

OfferFailureStatusUnmapped(message) == classifyCheckoutErrorMessage(message)

\* lines 641-643: finalStatus
OfferFailureStatus(message) ==
  LET failure == classifyCheckoutErrorMessage(message)
  IN  IF failure \in {"access_denied", "blocked"} THEN failure ELSE "failed"

\* sendOffer resolved (lines 626-653)
SendOfferResolves(o) ==
  /\ step = "sendOffer"
  /\ answers' = Append(answers, o)
  /\ IF o.kind = "ok"
       THEN /\ Return(Ok(Offer(TRUE, "none", "none")))
            /\ UNCHANGED sendFailure
       ELSE /\ sendFailure' = OfferFailureStatus(o.error)
            /\ Goto("estimate", Call("estimateOfferWithFees", ItemId, NoPickupPoint))
  /\ UNCHANGED <<running, sellerUserId, pickupPoint, transactionId, checkoutItemId,
                 buildAttempts, firstResult, checkoutAttempt, purchaseIdCandidates,
                 candidate, fallbackFlags>>

EstimateResultErr(o) == Err(MSG_FAILED)

\* lines 655-658: the result after estimateOfferWithFees
EstimateResult(o) ==
  Ok(Offer(FALSE, sendFailure, IF o.kind = "ok" THEN o.value ELSE "none"))

\* estimateOfferWithFees resolved (lines 645-658)
EstimateResolves(o) ==
  /\ step = "estimate"
  /\ answers' = Append(answers, o)
  /\ Return(EstimateResult(o))
  /\ UNCHANGED <<running, sellerUserId, pickupPoint, transactionId, checkoutItemId,
                 buildAttempts, firstResult, checkoutAttempt, purchaseIdCandidates,
                 candidate, fallbackFlags, sendFailure>>

ExportedFunctions == {"attemptCheckoutBuild", "attemptInstantBuy", "attemptMakeOffer"}

NextActions ==
  \/ \E fn \in ExportedFunctions, seller \in SellerUserIds :
       Attempt(fn, seller) /\ UNCHANGED exceptActions
  \/ \E o \in TokenOutcomes : TokenResolves(o) /\ UNCHANGED exceptActions
  \/ \E o \in AccountOutcomes : AccountResolves(o) /\ UNCHANGED exceptActions
  \/ \E o \in TransactionOutcomes :
       TransactionResolves(o) /\ UNCHANGED exceptActions
  \/ \E o \in BuildOutcomes : BuildResolves(o) /\ UNCHANGED exceptActions
  \/ \E o \in BuildOutcomes : FallbackResolves(o) /\ UNCHANGED exceptActions
  \/ \E o \in TokenOutcomes :
       SubmitTokenResolves(o) /\ UNCHANGED exceptActions
  \/ \E o \in SubmitOutcomes : SubmitResolves(o) /\ UNCHANGED exceptActions
  \/ \E o \in TokenOutcomes :
       FallbackTokenResolves(o) /\ UNCHANGED exceptActions
  \/ \E o \in SubmitOutcomes :
       DirectSubmitResolves(o) /\ UNCHANGED exceptActions
  \/ \E o \in OfferOutcomes : SendOfferResolves(o) /\ UNCHANGED exceptActions
  \/ \E o \in EstimateOutcomes : EstimateResolves(o) /\ UNCHANGED exceptActions

SpecActions == InitBackoff /\ [][NextActions]_vars

\* ============================================================ fetchJson

\* the map of one scope and host in a two-level map
getCookiesForScopeHostShared(sessionScope, host) == <<DEFAULT_SESSION_SCOPE, host>>
getCookiesForScopeHost(sessionScope, host) == <<sessionScope, host>>

getHeadersForScopeHost(sessionScope, host) == <<sessionScope, host>>

getCookieHeaderFromJar(jar, host, sessionScope) ==
  jar[getCookiesForScopeHost(normalizeSessionScope(sessionScope), host)]

\* each Set-Cookie header is [name, value]: the pair before the first ';'
RECURSIVE MergeSetCookies(_, _)
MergeSetCookies(cookies, setCookieHeaders) ==
  IF setCookieHeaders = <<>> THEN cookies
  ELSE LET parsed == Head(setCookieHeaders)
           merged == IF parsed.value.value = EmptyValue
                     THEN [cookies EXCEPT ![parsed.name] = NoEntry]
                     ELSE [cookies EXCEPT ![parsed.name] = parsed.value]
       IN  MergeSetCookies(merged, Tail(setCookieHeaders))

setCookiesInJar(jar, host, setCookieHeaders, sessionScope) ==
  IF setCookieHeaders = <<>> THEN jar
  ELSE LET at == getCookiesForScopeHost(normalizeSessionScope(sessionScope), host)
       IN  [jar EXCEPT ![at] = MergeSetCookies(jar[at], setCookieHeaders)]

getDynamicHeadersForUrl(dyn, host, sessionScope) ==
  dyn[getHeadersForScopeHost(normalizeSessionScope(sessionScope), host)]

rememberResponseHeadersForSession(dyn, host, headers, sessionScope) ==
  LET at == getHeadersForScopeHost(normalizeSessionScope(sessionScope), host)
  IN  [dyn EXCEPT ![at] =
        [n \in RememberedHeaders |->
          IF headers[n] # NoEntry /\ headers[n].value # EmptyValue THEN headers[n] ELSE @[n]]]

\* a ?? b
Coalesce(a, b) == IF a # NoEntry THEN a ELSE b

\* the cookie and the session headers of a request; the caller's own headers
\* and the environment's are constants of the request and are left out
buildRequestHeaders(jar, dyn, host, sessionScope, requestProfile) ==
  LET sessionHeaders == IF requestProfile = "oauth_token" THEN NoHeaders
                        ELSE getDynamicHeadersForUrl(dyn, host, sessionScope)
      jarCookie == IF requestProfile = "oauth_token" THEN NoCookies
                   ELSE getCookieHeaderFromJar(jar, host, sessionScope)
  IN  [cookie |-> jarCookie,
       anonId |-> IF requestProfile = "oauth_token" THEN NoEntry
                  ELSE Coalesce(sessionHeaders["x-anon-id"], jarCookie["anon_id"]),
       vUdt |-> IF requestProfile = "oauth_token" THEN NoEntry
                ELSE Coalesce(sessionHeaders["x-v-udt"], jarCookie["v_udt"]),
       incognia |-> sessionHeaders["x-incognia-request-token"]]

\* ----------------------------------------------------------- responses
NoContentType == <<>>
TEXT_JSON == <<"{}">>
TEXT_DENIED == <<"access_denied">>
TEXT_FORBIDDEN == <<"Forbidden">>
TEXT_CHALLENGE == <<"<!DOCTYPE", "html", ">", "Just", "a", "moment">>

Response(s, c, t) == [kind |-> "response", status |-> s, contentType |-> c, text |-> t]

\* what the server answers a request with
Responses ==
  { Response(200, <<"application/json">>, TEXT_JSON),
    Response(401, <<"application/json">>, TEXT_DENIED),
    Response(403, <<"application/json">>, TEXT_DENIED),
    Response(403, <<"Text/HTML", "charset=utf-8">>, TEXT_FORBIDDEN),
    Response(403, NoContentType, TEXT_CHALLENGE),
    Response(500, <<"application/json">>, TEXT_FORBIDDEN) }

\* Set-Cookie headers and remembered headers a response carries
Capture(c, h) == [cookies |-> c, headers |-> h]
Captures ==
  { Capture(<<>>, <<"", "", "">>),
    Capture(<<<<"anon_id", "1">>>>, <<"", "", "">>),
    Capture(<<<<"anon_id", "2">>, <<"v_udt", "1">>>>, <<"", "", "">>),
    Capture(<<<<"anon_id", EmptyValue>>>>, <<"", "", "">>),
    Capture(<<>>, <<"2", "1", "2">>) }

getSetCookieHeaders(capture, key) ==
  [i \in DOMAIN capture.cookies |->
     [name |-> capture.cookies[i][1], value |-> Captured(capture.cookies[i][2], key)]]

ResponseHeaders(capture, key) ==
  [n \in RememberedHeaders |->
     LET v == CASE n = "x-anon-id" -> capture.headers[1]
                [] n = "x-v-udt" -> capture.headers[2]
                [] OTHER -> capture.headers[3]
     IN  IF v = EmptyValue THEN NoEntry ELSE Captured(v, key)]

looksLikeBotBlock(status, contentType, text) ==
  IF status # 403 THEN FALSE
  ELSE IF Includes(ToLowerCase(contentType), <<"text/html">>) THEN TRUE
  ELSE LET lower == ToLowerCase(text)
       IN  \/ Includes(lower, <<"<!doctype", "html">>)
           \/ Includes(lower, <<"<title>vinted</title">>)
           \/ Includes(lower, <<"just", "a", "moment">>)

toVintedBlockedError == MSG_BLOCKED \o <<"(Anti-Bot/Cloudflare)">>

StatusWord(status) == CHOOSE w \in DOMAIN StatusOfWord : StatusOfWord[w] = status

RequestFailed(status, text) == <<"Vinted", "request", "failed", StatusWord(status)>> \o text

ParsedJson(text) ==
  IF text \in {TEXT_JSON} THEN Ok(text)
  ELSE Err(<<"Failed", "to", "parse", "Vinted", "response">>)

\* curl exited with a code other than 0
CurlExit == [kind |-> "exit"]

\* part_010 lines 1045-1075: what fetchJsonViaCurl returns for curl's output
fetchJsonViaCurlResult(answer) ==
  IF answer.kind = "exit" THEN Err(<<"Curl", "request", "failed">>)
  ELSE IF answer.status < 200 \/ answer.status >= 300
       THEN IF looksLikeBotBlock(answer.status, NoContentType, answer.text)
            THEN Err(toVintedBlockedError)
            ELSE Err(RequestFailed(answer.status, answer.text))
  ELSE ParsedJson(answer.text)

\* part_010 lines 1169-1183: what fetchJson returns for a response it does not retry
fetchJsonResult(res) ==
  IF res.status < 200 \/ res.status >= 300
  THEN IF looksLikeBotBlock(res.status, res.contentType, res.text)
       THEN Err(toVintedBlockedError)
       ELSE Err(RequestFailed(res.status, res.text))
  ELSE ParsedJson(res.text)

\* ------------------------------------------------------------ the calls
PREFER_CURL_MS == 30 * 60 * 1000
TICK_MS == 15 * 60 * 1000
MaxDateNow == 1800000

\* process.env.VINTED_HTTP_BACKEND is set before the first request
parseHttpBackendFromEnv(raw) ==
  /\ started = 0
  /\ httpBackend = "auto"
  /\ httpBackend' = raw
  /\ UNCHANGED <<dateNow, preferCurlUntil, cookieJarByScopeHost, dynamicHeadersByScopeHost,
                 fetchJsonCalls, started, setCookieByScopeHost, fetchFailures>>

shouldPreferCurl == dateNow < preferCurlUntil
markPreferCurlFor(ms) == dateNow + ms

\* the call returned: its arguments and its request are gone
Returned(call, result) ==
  [IdleCall EXCEPT !.pc = "done", !.index = call.index, !.startedAt = call.startedAt,
                   !.triedFetch = call.triedFetch, !.res = call.res,
                   !.curlCalls = call.curlCalls, !.result = result]

\* fetchJsonViaCurl up to the await of the child's exit
fetchJsonViaCurl(call, jar, dyn) ==
  [call EXCEPT !.pc = "curl",
               !.headers = buildRequestHeaders(jar, dyn, call.host, call.sessionScope,
                                               call.requestProfile),
               !.curlCalls = @ + 1]

\* the cookies the server has set for a scope and host, whichever backend
\* carried the response
ServerSetCookies(key, host, capture) ==
  LET at == <<normalizeSessionScope(key), host>>
  IN  [setCookieByScopeHost EXCEPT
        ![at] = MergeSetCookies(@, getSetCookieHeaders(capture, key))]

\* fetch failed now, after so many requests had started: it rejected, or it
\* answered with a bot block or with another 403
FetchFailure(kind) == [kind |-> kind, at |-> dateNow, started |-> started]

\* fetchJson up to the await of fetch or of the curl child
fetchJson(p, key, host, profile) ==
  /\ fetchJsonCalls[p].pc = "idle"
  /\ started' = started + 1
  /\ LET call == [IdleCall EXCEPT !.sessionScope = key, !.host = host,
                                  !.requestProfile = profile, !.index = started + 1,
                                  !.startedAt = dateNow]
     IN  fetchJsonCalls' = [fetchJsonCalls EXCEPT ![p] =
           IF httpBackend = "curl" \/ (httpBackend = "auto" /\ shouldPreferCurl)
           THEN fetchJsonViaCurl(call, cookieJarByScopeHost, dynamicHeadersByScopeHost)
           ELSE [call EXCEPT !.pc = "fetch", !.triedFetch = TRUE,
                             !.headers = buildRequestHeaders(cookieJarByScopeHost,
                                           dynamicHeadersByScopeHost, host, key, profile)]]
  /\ UNCHANGED <<httpBackend, dateNow, preferCurlUntil, cookieJarByScopeHost,
                 dynamicHeadersByScopeHost, setCookieByScopeHost, fetchFailures>>

\* lines 1121-1128: fetch rejected
FetchThrows(p) ==
  LET call == fetchJsonCalls[p]
  IN  /\ call.pc = "fetch"
      /\ preferCurlUntil' = markPreferCurlFor(PREFER_CURL_MS)
      /\ fetchJsonCalls' = [fetchJsonCalls EXCEPT ![p] =
           fetchJsonViaCurl(call, cookieJarByScopeHost, dynamicHeadersByScopeHost)]
      /\ fetchFailures' = fetchFailures \cup {FetchFailure("threw")}
      /\ UNCHANGED <<httpBackend, dateNow, cookieJarByScopeHost, dynamicHeadersByScopeHost,
                     started, setCookieByScopeHost>>

\* lines 1130-1184: fetch answered; the body is read
FetchResponds(p, res, capture) ==
  LET call == fetchJsonCalls[p]
      jar == setCookiesInJar(cookieJarByScopeHost, call.host,
                             getSetCookieHeaders(capture, call.sessionScope), call.sessionScope)
      dyn == rememberResponseHeadersForSession(dynamicHeadersByScopeHost, call.host,
               ResponseHeaders(capture, call.sessionScope), call.sessionScope)
      isOk == res.status >= 200 /\ res.status < 300
      botBlock == looksLikeBotBlock(res.status, res.contentType, res.text)
  IN  /\ call.pc = "fetch"
      /\ cookieJarByScopeHost' = jar
      /\ dynamicHeadersByScopeHost' = dyn
      /\ setCookieByScopeHost' = ServerSetCookies(call.sessionScope, call.host, capture)
      /\ fetchFailures' = IF botBlock THEN fetchFailures \cup {FetchFailure("blocked")}
                          ELSE IF res.status = 403
                          THEN fetchFailures \cup {FetchFailure("forbidden")}
                          ELSE fetchFailures
      /\ fetchJsonCalls' = [fetchJsonCalls EXCEPT ![p] =
           IF ~isOk /\ httpBackend = "auto" /\ res.status \in {401, 403}
           THEN [fetchJsonViaCurl(call, jar, dyn) EXCEPT !.pc = "retry", !.res = res]
           ELSE Returned([call EXCEPT !.res = res], fetchJsonResult(res))]
      /\ UNCHANGED <<httpBackend, dateNow, preferCurlUntil, started>>

\* lines 1156-1176: the curl retry of a 401 or 403 resolved
CurlRetryResolves(p, answer, capture) ==
  LET call == fetchJsonCalls[p]
      retryViaCurl == fetchJsonViaCurlResult(answer)
      botBlock == looksLikeBotBlock(call.res.status, call.res.contentType, call.res.text)
  IN  /\ call.pc = "retry"
      /\ setCookieByScopeHost' =
           IF answer.kind = "exit" THEN setCookieByScopeHost
           ELSE ServerSetCookies(call.sessionScope, call.host, capture)
      /\ preferCurlUntil' =
           IF \/ retryViaCurl.kind = "ok" /\ call.res.status = 403
              \/ retryViaCurl.kind # "ok" /\ botBlock
           THEN markPreferCurlFor(PREFER_CURL_MS)
           ELSE preferCurlUntil
      /\ fetchJsonCalls' = [fetchJsonCalls EXCEPT ![p] =
           IF retryViaCurl.kind = "ok"
           THEN Returned(call, retryViaCurl)
           ELSE IF botBlock
           THEN fetchJsonViaCurl(call, cookieJarByScopeHost, dynamicHeadersByScopeHost)
           ELSE Returned(call, fetchJsonResult(call.res))]
      /\ UNCHANGED <<httpBackend, dateNow, cookieJarByScopeHost, dynamicHeadersByScopeHost,
                     started, fetchFailures>>

\* lines 1036-1075: the curl child exited
CurlResolves(p, answer, capture) ==
  LET call == fetchJsonCalls[p]
  IN  /\ call.pc = "curl"
      /\ setCookieByScopeHost' =
           IF answer.kind = "exit" THEN setCookieByScopeHost
           ELSE ServerSetCookies(call.sessionScope, call.host, capture)
      /\ fetchJsonCalls' = [fetchJsonCalls EXCEPT ![p] =
           Returned(call, fetchJsonViaCurlResult(answer))]
      /\ UNCHANGED <<httpBackend, dateNow, preferCurlUntil, cookieJarByScopeHost,
                     dynamicHeadersByScopeHost, started, fetchFailures>>

\* Date.now() moves on
DateNowAdvances ==
  /\ dateNow + TICK_MS <= MaxDateNow
  \* curl runs with --max-time 20: no tick passes while a child runs
  /\ \A p \in Callers : fetchJsonCalls[p].pc \notin {"retry", "curl"}
  /\ dateNow' = dateNow + TICK_MS
  /\ UNCHANGED <<httpBackend, preferCurlUntil, cookieJarByScopeHost,
                 dynamicHeadersByScopeHost, fetchJsonCalls, started, setCookieByScopeHost,
                 fetchFailures>>

\* cookies and headers across session keys and hosts
SessionResponses == {r \in Responses : r.status \in {200, 401}}

NextSessions ==
  \/ \E raw \in {"fetch", "curl"} : parseHttpBackendFromEnv(raw) /\ UNCHANGED exceptTransport
  \/ \E p \in Callers, key \in SessionKeys, host \in Hosts, profile \in RequestProfiles :
       fetchJson(p, key, host, profile) /\ UNCHANGED exceptTransport
  \/ \E p \in Callers : FetchThrows(p) /\ UNCHANGED exceptTransport
  \/ \E p \in Callers, res \in SessionResponses, capture \in Captures :
       FetchResponds(p, res, capture) /\ UNCHANGED exceptTransport
  \/ \E p \in Callers, answer \in {CurlExit} \cup SessionResponses, capture \in Captures :
       CurlRetryResolves(p, answer, capture) /\ UNCHANGED exceptTransport
  \/ \E p \in Callers, answer \in {CurlExit} \cup SessionResponses, capture \in Captures :
       CurlResolves(p, answer, capture) /\ UNCHANGED exceptTransport

SpecSessions == InitBackoff /\ [][NextSessions]_vars

\* the backends of one session over time
NoCapture == Capture(<<>>, <<EmptyValue, EmptyValue, EmptyValue>>)

NextBackends ==
  \/ \E raw \in {"fetch", "curl"} : parseHttpBackendFromEnv(raw) /\ UNCHANGED exceptTransport
  \/ \E p \in Callers :
       fetchJson(p, "user-a", "www.vinted.de", "default") /\ UNCHANGED exceptTransport
  \/ \E p \in Callers : FetchThrows(p) /\ UNCHANGED exceptTransport
  \/ \E p \in Callers, res \in Responses :
       FetchResponds(p, res, NoCapture) /\ UNCHANGED exceptTransport
  \/ \E p \in Callers, answer \in {CurlExit} \cup Responses :
       CurlRetryResolves(p, answer, NoCapture) /\ UNCHANGED exceptTransport
  \/ \E p \in Callers, answer \in {CurlExit} \cup Responses :
       CurlResolves(p, answer, NoCapture) /\ UNCHANGED exceptTransport
  \/ DateNowAdvances /\ UNCHANGED exceptTransport

SpecBackends == InitBackoff /\ [][NextBackends]_vars

\* ============================ VintedClient: the requests of the actions

\* what fetchJson answers an action request with: an error message, or a
\* JSON payload (with an errors field, with a checkout url, or with neither)
ERR_401 == <<"Vinted", "request", "failed", "(401)", "No", "body">>
ERR_DENIED_400 == <<"Vinted", "request", "failed", "(400)", "access_denied">>
ERR_500 == <<"Vinted", "request", "failed", "(500)", "No", "body">>
ERR_CLOUDFLARE_503 == <<"Vinted", "request", "failed", "(503)", "cloudflare">>

RequestErrors ==
  {ERR_401, ERR_DENIED_400, ERR_500, ERR_CLOUDFLARE_503, toVintedBlockedError, MSG_CAPTCHA}

JsonPayload(errors, url) == [kind |-> "json", errors |-> errors, checkout_url |-> url]
CheckoutUrl == "https://www.vinted.de/checkout?purchase_id=7"

RequestAnswers ==
  {ErrorResponse(m) : m \in RequestErrors}
    \cup {JsonPayload(FALSE, CheckoutUrl), JsonPayload(FALSE, NoUrl), JsonPayload(TRUE, NoUrl)}

\* lines 1588-1597
shouldPrimeCheckoutSessionFromError(message) ==
  LET lower == ToLowerCase(message)
  IN  \/ Includes(lower, <<"(403)">>)
      \/ HasWord(lower, "cloudflare")
      \/ HasWord(lower, "captcha")
      \/ HasWord(lower, "blockiert")
      \/ HasWord(lower, "access_denied")

\* lines 751-766: the headers of an action request
buildActionAuthHeaders(includeAuthorization) ==
  [cookie |-> "access_token_web", authorization |-> includeAuthorization]

Request(endpoint, headers) == [endpoint |-> endpoint, headers |-> headers]

\* fetchJson is called for the endpoint
Send(endpoint, includeAuthorization) ==
  vcRequests' = Append(vcRequests, Request(endpoint, buildActionAuthHeaders(includeAuthorization)))

Answered(o) == vcAnswers' = Append(vcAnswers, o)

Finish(result) ==
  /\ vcPc' = "done"
  /\ vcResult' = result
  /\ UNCHANGED <<vcAction, vcRequests, vcErrors>>

Endpoint == vcRequests[Len(vcRequests)].endpoint

\* an action is called: after the session warm-up its first request goes
\* out with the web-session cookie and no Authorization header
CallAction(action, endpoint) ==
  /\ vcAction = "none"
  /\ scPc = "idle"
  /\ vcAction' = action
  /\ vcPc' = "primary"
  /\ Send(endpoint, FALSE)
  /\ UNCHANGED <<vcAnswers, vcErrors, vcResult>>

\* lines 1836-1857
toggleFavourite == CallAction("toggleFavourite", "user_favourites/toggle")
\* lines 1600-1627
createConversationTransaction == CallAction("createConversationTransaction", "conversations")
\* lines 1922-1951
buildCheckout == CallAction("buildCheckout", "purchases/checkout/build")
\* lines 2155-2214
sendOffer == CallAction("sendOffer", "transactions/{id}/offer_requests")

\* the primary request was rejected in a way the Authorization header may
\* cure: the request is repeated with it (lines 1858-1871 and the like)
PrimaryRejected(o) ==
  /\ vcAction # "none"
  /\ vcPc = "primary"
  /\ o.kind = "error" /\ shouldRetryWithAuthorization(o.message)
  /\ Answered(o)
  /\ vcPc' = "authorized"
  /\ Send(Endpoint, TRUE)
  /\ UNCHANGED <<vcAction, vcErrors, vcResult>>

\* json of toggleFavourite and createConversationTransaction: lines 1872-1919, 1629-1683
SimpleJson(o) ==
  IF o.kind = "error" THEN Finish(Err(o.message))
  ELSE IF extractErrorsPayloadMessage(o) # NoMessage THEN Finish(Err(extractErrorsPayloadMessage(o)))
  ELSE Finish(Ok("value"))

CheckoutBuilt(checkoutUrl) == Ok([checkoutUrl |-> checkoutUrl])

\* lines 1967-1998
BuildFinish(o) ==
  IF o.kind = "error"
    THEN IF extractCaptchaChallengeUrl(o.message) # NoUrl
           THEN Finish(CheckoutBuilt(NoUrl))
           ELSE Finish(Err(o.message))
    ELSE IF extractErrorsPayloadMessage(o) # NoMessage
      THEN Finish(Err(extractErrorsPayloadMessage(o)))
      ELSE Finish(CheckoutBuilt(o.checkout_url))

\* lines 1957-1965: json of the build, before or after the preflight
BuildJson(o) ==
  IF vcPc # "primed" /\ o.kind = "error" /\ shouldPrimeCheckoutSessionFromError(o.message)
    THEN /\ vcPc' = "preflight"
         /\ vcRequests' = Append(vcRequests,
                            Request("catalog/items", [authorization |-> TRUE]))
         /\ UNCHANGED <<vcAction, vcErrors, vcResult>>
    ELSE BuildFinish(o)

OfferEndpoints ==
  <<"transactions/{id}/offer_requests", "transactions/{id}/offers", "offers">>

LooksMoreSpecific(message) ==
  \E w \in {"access_denied", "cloudflare", "captcha", "blockiert"} :
    HasWord(ToLowerCase(message), w)

\* the legacy endpoint's error, whatever the others were
OfferErrorLegacy(errors) == errors[3]

\* lines 2254-2288: the error of three failed endpoints
OfferError(errors) ==
  LET modern == errors[1]
      transaction == errors[2]
      legacy == errors[3]
      legacyDenied == HasWord(ToLowerCase(legacy), "access_denied")
  IN  IF LooksMoreSpecific(modern) /\ ~legacyDenied THEN modern
      ELSE IF LooksMoreSpecific(transaction) /\ ~legacyDenied THEN transaction
      ELSE IF \E i \in 1..3 : LooksMoreSpecific(errors[i])
           THEN IF LooksMoreSpecific(modern) THEN modern
                ELSE IF LooksMoreSpecific(transaction) THEN transaction
                ELSE legacy
      ELSE legacy

sendOfferRequestFailedAlways(o) == TRUE

\* lines 2197-2200: the endpoint's request failed
sendOfferRequestFailed(o) ==
  o.kind = "error" \/ extractErrorsPayloadMessage(o) # NoMessage

\* lines 2215-2252: the result of sendOfferRequest for one endpoint
OfferJson(o) ==
  IF ~sendOfferRequestFailed(o) THEN Finish(Ok([sent |-> TRUE]))
  ELSE LET message == IF o.kind = "error" THEN o.message ELSE extractErrorsPayloadMessage(o)
           errors == Append(vcErrors, message)
       IN  IF Len(errors) < Len(OfferEndpoints)
             THEN /\ vcPc' = "primary"
                  /\ vcErrors' = errors
                  /\ Send(OfferEndpoints[Len(errors) + 1], FALSE)
                  /\ UNCHANGED <<vcAction, vcResult>>
             ELSE /\ vcPc' = "done"
                  /\ vcErrors' = errors
                  /\ vcResult' = Err(OfferError(errors))
                  /\ UNCHANGED <<vcAction, vcRequests>>

\* json of the action that runs
ActionJson(o) ==
  CASE vcAction = "buildCheckout" -> BuildJson(o)
    [] vcAction = "sendOffer" -> OfferJson(o)
    [] OTHER -> SimpleJson(o)

\* the primary request is answered and not repeated
PrimaryResolved(o) ==
  /\ vcAction # "none"
  /\ vcPc = "primary"
  /\ ~(o.kind = "error" /\ shouldRetryWithAuthorization(o.message))
  /\ Answered(o)
  /\ ActionJson(o)

\* the request with the Authorization header is answered; so is the build
\* repeated after the preflight
RepeatResolved(o) ==
  /\ vcPc \in {"authorized", "primed"}
  /\ Answered(o)
  /\ ActionJson(o)

\* lines 1959-1964: the preflight's answer is dropped and the build repeated
PreflightResolved(o) ==
  /\ vcPc = "preflight"
  /\ Answered(o)
  /\ vcPc' = "primed"
  /\ Send("purchases/checkout/build", TRUE)
  /\ UNCHANGED <<vcAction, vcErrors, vcResult>>

NextRequests ==
  \/ toggleFavourite /\ UNCHANGED exceptRequests
  \/ createConversationTransaction /\ UNCHANGED exceptRequests
  \/ buildCheckout /\ UNCHANGED exceptRequests
  \/ sendOffer /\ UNCHANGED exceptRequests
  \/ \E o \in RequestAnswers : PrimaryRejected(o) /\ UNCHANGED exceptRequests
  \/ \E o \in RequestAnswers : PrimaryResolved(o) /\ UNCHANGED exceptRequests
  \/ \E o \in RequestAnswers : RepeatResolved(o) /\ UNCHANGED exceptRequests
  \/ \E o \in RequestAnswers : PreflightResolved(o) /\ UNCHANGED exceptRequests
  \/ vcAction = "none" /\ NextSubmit

SpecRequests == InitBackoff /\ [][NextRequests]_vars

\* ============================================ resolveRefreshTokenForSetup
\* src/unnamed/part_001, lines 1-158
ALL_REGIONS == <<"de", "at", "fr", "it", "es", "nl", "pl", "cz", "pt">>

INVALID_GRANT_SETUP_MESSAGE ==
  <<"Refresh-Token", "konnte", "nicht", "verifiziert", "werden", "(invalid_grant)",
    "Bitte", "fuege", "den", "Cookie-Wert", "refresh_token_web", "ein">>
ERR_SETUP_EMPTY == <<"Refresh-Token", "darf", "nicht", "leer", "sein">>
ERR_SETUP_UNVERIFIED ==
  <<"Refresh-Token", "konnte", "nicht", "verifiziert", "werden", "Bitte", "pruefe", "ihn">>

\* what the user pastes: a bare value, or the text  name=value
RawInput(name, value) == [kind |-> "input", cookieName |-> name, value |-> value]
NoValue == "null"
RefreshTokenInputs ==
  { RawInput("", ""),
    RawInput("", "real-token"),
    RawInput("refresh_token_web", "abc%2Bdef%3D"),
    RawInput("foo", "bar") }

\* lines 19-45: the prefix  refresh_token_web=  is cut off, other text is kept
sanitizeRawTokenCandidate(raw) ==
  IF raw.cookieName \in {"", "refresh_token_web"} THEN raw.value
  ELSE raw.cookieName \o "=" \o raw.value

\* lines 47-54
tryDecodeURIComponent(value) ==
  IF value = "abc%2Bdef%3D" THEN "abc+def=" ELSE NoValue

\* lines 56-68
parseCookieValue(raw, name) ==
  IF raw.cookieName = name THEN raw.value ELSE NoValue

\* lines 75-86
RECURSIVE uniqueStrings(_)
uniqueStrings(values) ==
  IF values = <<>> THEN <<>>
  ELSE LET n == Len(values)
           front == uniqueStrings(SubSeq(values, 1, n - 1))
           value == values[n]
       IN  IF value = "" \/ \E i \in DOMAIN front : front[i] = value THEN front
           ELSE Append(front, value)

\* lines 95-104: pushCandidate
pushCandidate(candidates, value) ==
  IF value = NoValue \/ value = "" THEN candidates
  ELSE LET decoded == tryDecodeURIComponent(value)
       IN  IF decoded # NoValue /\ decoded # value
             THEN candidates \o <<value, decoded>>
             ELSE Append(candidates, value)

\* lines 88-111
extractRefreshTokenCandidates(raw) ==
  IF raw.cookieName = "" /\ raw.value = "" THEN <<>>
  ELSE LET c1 == pushCandidate(<<>>, sanitizeRawTokenCandidate(raw))
           c2 == pushCandidate(c1, parseCookieValue(raw, "refresh_token_web"))
           \* no input is JSON; the match of line 108 is the cookie's value
           c3 == pushCandidate(c2, parseCookieValue(raw, "refresh_token_web"))
       IN  uniqueStrings(c3)

\* the regions in the order of ALL_REGIONS, whichever was selected
SetupRegionsUnordered(selectedRegion) == ALL_REGIONS

\* lines 126-129: the selected region, then the others in the order of ALL_REGIONS
SetupRegions(selectedRegion) ==
  LET IsOther(region) == region # selectedRegion
  IN  <<selectedRegion>> \o SelectSeq(ALL_REGIONS, IsOther)

SetupTokenResponse == [accessToken |-> "access", refreshToken |-> "next-refresh"]

\* the refreshAttempt callbacks: one that succeeds for one region and one
\* token (or for none) and fails with one message otherwise
RefreshAttempts ==
  [validRegion : VintedRegions \cup {"none"},
   validToken : {"real-token", "abc%2Bdef%3D", "abc+def="},
   message : ServerErrors]

refreshAttempt(callback, region, token) ==
  IF callback.validRegion = region /\ callback.validToken = token
    THEN Ok(SetupTokenResponse)
    ELSE Err(callback.message)

\* the attempt the loops of lines 133-134 make after n attempts
SetupAttempt(n) ==
  LET tokenCandidates == extractRefreshTokenCandidates(rsInput.refreshTokenInput)
      regions == SetupRegions(rsInput.selectedRegion)
  IN  [region |-> regions[(n \div Len(tokenCandidates)) + 1],
       refreshToken |-> tokenCandidates[(n % Len(tokenCandidates)) + 1]]

SetupReturns(result) ==
  /\ rsPc' = "done"
  /\ rsResult' = result

\* lines 113-124: the call, up to the first awaited attempt
resolveRefreshTokenForSetup(selectedRegion, refreshTokenInput, callback) ==
  /\ rsPc = "idle"
  /\ rsInput' = [kind |-> "call", selectedRegion |-> selectedRegion,
                 refreshTokenInput |-> refreshTokenInput, refreshAttempt |-> callback]
  /\ IF extractRefreshTokenCandidates(refreshTokenInput) = <<>>
       THEN SetupReturns(Err(ERR_SETUP_EMPTY)) /\ UNCHANGED rsAttempts
       ELSE /\ rsPc' = "attempt"
            /\ rsAttempts' = <<[region |-> selectedRegion,
                                refreshToken |->
                                  extractRefreshTokenCandidates(refreshTokenInput)[1]]>>
            /\ UNCHANGED rsResult
  /\ UNCHANGED sawInvalidGrant

\* the attempts left after an invalid_grant failure
SetupAttemptsLeft ==
  Len(rsAttempts) <
    Len(ALL_REGIONS) * Len(extractRefreshTokenCandidates(rsInput.refreshTokenInput))

\* lines 135-151: the awaited attempt settles
RefreshAttemptSettles ==
  /\ rsPc = "attempt"
  /\ LET attempt == rsAttempts[Len(rsAttempts)]
         settled == refreshAttempt(rsInput.refreshAttempt, attempt.region, attempt.refreshToken)
         found == [region |-> attempt.region, tokenResponse |-> settled.value]
     IN  IF settled.kind = "ok"
           THEN /\ SetupReturns(Ok(found))
                /\ UNCHANGED <<rsAttempts, sawInvalidGrant>>
         ELSE IF isBlockedError(settled.error)
           THEN /\ SetupReturns(Err(settled.error))
                /\ UNCHANGED <<rsAttempts, sawInvalidGrant>>
         ELSE IF isInvalidGrantError(settled.error)
           THEN /\ sawInvalidGrant' = TRUE
                /\ IF SetupAttemptsLeft
                     THEN /\ rsAttempts' = Append(rsAttempts, SetupAttempt(Len(rsAttempts)))
                          /\ UNCHANGED <<rsPc, rsResult>>
                     \* lines 153-155
                     ELSE /\ SetupReturns(Err(INVALID_GRANT_SETUP_MESSAGE))
                          /\ UNCHANGED rsAttempts
         ELSE /\ SetupReturns(Err(settled.error))
              /\ UNCHANGED <<rsAttempts, sawInvalidGrant>>
  /\ UNCHANGED rsInput

NextSetup ==
  \/ \E selectedRegion \in VintedRegions, refreshTokenInput \in RefreshTokenInputs,
        callback \in RefreshAttempts :
       resolveRefreshTokenForSetup(selectedRegion, refreshTokenInput, callback)
         /\ UNCHANGED exceptSetup
  \/ RefreshAttemptSettles /\ UNCHANGED exceptSetup

SpecSetup == InitBackoff /\ [][NextSetup]_vars

\* ============================================ notifySetupRequiredIfNeeded
\* src/unnamed/part_001, lines 174-279
CHANNEL_COOLDOWN_MS == 60 * 60 * 1000
DM_COOLDOWN_MS == 60 * 60 * 1000
NOTIFIER_TICK_MS == 30 * 60 * 1000
MaxNotifierNow == 3600000

\* what channels.fetch and users.fetch settle with
ChannelFetches == {"sendable", "not sendable", "unknown channel", "rejected"}

SendCall(kind, id, p) == [kind |-> kind, id |-> id, at |-> notifierNow, task |-> p]

\* a call that settled keeps no arguments
NotifierMoves(p, to) ==
  notifierCalls' = [notifierCalls EXCEPT ![p] =
    IF to \in {"returned", "rejected"} THEN [pc |-> to] ELSE [@ EXCEPT !.pc = to]]

\* lines 260-277: the direct message part, entered after the channel part
DmPart(p) ==
  IF notifierCalls[p].dmDue THEN NotifierMoves(p, "users.fetch")
  ELSE NotifierMoves(p, "returned")

\* lines 254-256: finally
ChannelFinally(p) ==
  channelNotifiedUntilBySubscriptionId' =
    [channelNotifiedUntilBySubscriptionId EXCEPT
       ![notifierCalls[p].subscription.id] = notifierCalls[p].now + CHANNEL_COOLDOWN_MS]

\* lines 275-277: finally
DmFinally(p) ==
  dmNotifiedUntilByUserId' =
    [dmNotifiedUntilByUserId EXCEPT
       ![notifierCalls[p].subscription.discordUserId] = notifierCalls[p].now + DM_COOLDOWN_MS]

\* lines 216-237: the call, up to its first await
notifySetupRequiredIfNeeded(p, subscription) ==
  /\ notifierCalls[p].pc \in {"idle", "returned", "rejected"}
  \* vinted-watcher.ts, lines 153-154 and 162: a subscription in flight is in
  \* no other task
  /\ \A q \in NotifierTasks :
       IF notifierCalls[q].pc \in {"idle", "returned", "rejected"} THEN TRUE
       ELSE notifierCalls[q].subscription.id # subscription.id
  /\ LET calledAt == notifierNow
         channelDue == calledAt >= channelNotifiedUntilBySubscriptionId[subscription.id]
         dmDue == calledAt >= dmNotifiedUntilByUserId[subscription.discordUserId]
     IN  notifierCalls' = [notifierCalls EXCEPT ![p] =
           IF ~channelDue /\ ~dmDue THEN [pc |-> "returned"]
           ELSE [pc |-> IF channelDue THEN "channels.fetch" ELSE "users.fetch",
                 subscription |-> subscription, now |-> calledAt,
                 channelDue |-> channelDue, dmDue |-> dmDue]]
  /\ UNCHANGED <<channelNotifiedUntilBySubscriptionId, dmNotifiedUntilByUserId,
                 notifierNow, sendCalls>>

\* lines 236-256: channels.fetch settles
ChannelFetchSettles(p, fetched) ==
  /\ notifierCalls[p].pc = "channels.fetch"
  /\ CASE fetched = "sendable" ->
            /\ sendCalls' = sendCalls \cup {SendCall("channel", notifierCalls[p].subscription.id, p)}
            /\ NotifierMoves(p, "channel.send")
            /\ UNCHANGED channelNotifiedUntilBySubscriptionId
       [] fetched = "unknown channel" ->
            /\ NotifierMoves(p, "onUnknownChannel")
            /\ UNCHANGED <<sendCalls, channelNotifiedUntilBySubscriptionId>>
       [] OTHER ->
            /\ ChannelFinally(p)
            /\ DmPart(p)
            /\ UNCHANGED sendCalls
  /\ UNCHANGED <<dmNotifiedUntilByUserId, notifierNow>>

\* lines 238-256: channel.send settles, resolved or rejected
ChannelSendSettles(p, fetched) ==
  /\ notifierCalls[p].pc = "channel.send"
  /\ IF fetched = "unknown channel"
       THEN NotifierMoves(p, "onUnknownChannel") /\ UNCHANGED channelNotifiedUntilBySubscriptionId
       ELSE ChannelFinally(p) /\ DmPart(p)
  /\ UNCHANGED <<dmNotifiedUntilByUserId, notifierNow, sendCalls>>

\* lines 246-256: the awaited onUnknownChannel settles; when it rejects the
\* finally runs and the call rejects
OnUnknownChannelSettles(p, resolved) ==
  /\ notifierCalls[p].pc = "onUnknownChannel"
  /\ ChannelFinally(p)
  /\ IF resolved THEN DmPart(p) ELSE NotifierMoves(p, "rejected")
  /\ UNCHANGED <<dmNotifiedUntilByUserId, notifierNow, sendCalls>>

\* lines 261-277: users.fetch settles
UserFetchSettles(p, resolved) ==
  /\ notifierCalls[p].pc = "users.fetch"
  /\ IF resolved
       THEN /\ sendCalls' =
                 sendCalls \cup {SendCall("dm", notifierCalls[p].subscription.discordUserId, p)}
            /\ NotifierMoves(p, "user.send")
            /\ UNCHANGED dmNotifiedUntilByUserId
       ELSE /\ DmFinally(p)
            /\ NotifierMoves(p, "returned")
            /\ UNCHANGED sendCalls
  /\ UNCHANGED <<channelNotifiedUntilBySubscriptionId, notifierNow>>

\* lines 263-277: user.send settles, resolved or rejected
UserSendSettles(p) ==
  /\ notifierCalls[p].pc = "user.send"
  /\ DmFinally(p)
  /\ NotifierMoves(p, "returned")
  /\ UNCHANGED <<channelNotifiedUntilBySubscriptionId, notifierNow, sendCalls>>

\* Date.now() between calls; the requests to Discord take seconds
NotifierNowAdvances ==
  /\ \A p \in NotifierTasks : notifierCalls[p].pc \in {"idle", "returned", "rejected"}
  /\ notifierNow + NOTIFIER_TICK_MS <= MaxNotifierNow
  /\ notifierNow' = notifierNow + NOTIFIER_TICK_MS
  /\ UNCHANGED <<channelNotifiedUntilBySubscriptionId, dmNotifiedUntilByUserId,
                 notifierCalls, sendCalls>>

NextNotifier ==
  \/ \E p \in NotifierTasks, subscription \in NotifierSubscriptions :
       notifySetupRequiredIfNeeded(p, subscription) /\ UNCHANGED exceptNotifier
  \/ \E p \in NotifierTasks, fetched \in ChannelFetches :
       ChannelFetchSettles(p, fetched) /\ UNCHANGED exceptNotifier
  \/ \E p \in NotifierTasks, fetched \in {"sendable", "unknown channel", "rejected"} :
       ChannelSendSettles(p, fetched) /\ UNCHANGED exceptNotifier
  \/ \E p \in NotifierTasks, resolved \in BOOLEAN :
       OnUnknownChannelSettles(p, resolved) /\ UNCHANGED exceptNotifier
  \/ \E p \in NotifierTasks, resolved \in BOOLEAN :
       UserFetchSettles(p, resolved) /\ UNCHANGED exceptNotifier
  \/ \E p \in NotifierTasks : UserSendSettles(p) /\ UNCHANGED exceptNotifier
  \/ NotifierNowAdvances /\ UNCHANGED exceptNotifier

SpecNotifier == InitBackoff /\ [][NextNotifier]_vars

\* ---------------------------------------------------------------- the watcher
\* src/src/watcher/vinted-watcher.ts.  startVintedWatcher runs one tick after
\* the other (`await run()` in its loop), so one tick runs at a time; the model
\* follows one subscription, which has autobuy enabled, and a catalogue whose
\* first page holds every listed item (fewer than perPage = 20).

\* the horizon of the watcher's clock and the step it advances by
MaxWatcherNow == 300000
WATCHER_STEP_MS == 60 * 1000
\* posts and buy attempts are counted up to this number
MaxCount == 2

autobuyEnabled(subscriptionId) == TRUE
\* matchesFilters (lines 203-217): the subscription's keywords and price range
\* let every item through but item 2
matchesFilters(item) == item # 2

\* the error messages of the token service and of searchCatalog, by the two
\* tests the watcher applies to them
WatcherErrors == [blocked : BOOLEAN, setupRequired : BOOLEAN]
isVintedBlockedError(message) == message.blocked
isSetupRequiredTokenError(message) == message.setupRequired

CountUp(count, item) ==
  [count EXCEPT ![item] = IF @ < MaxCount THEN @ + 1 ELSE @]

\* markSubscriptionBackoff (lines 85-96), as the map it leaves
markSubscriptionBackoff(map, subscriptionId, baseDelayMs, maxDelayMs) ==
  LET prev == map[subscriptionId]
      strikes == Min((IF prev = NoEntry THEN 0 ELSE prev.strikes) + 1, 6)
      delayMs == Min(maxDelayMs, baseDelayMs * 2 ^ strikes)
  IN  [map EXCEPT ![subscriptionId] = [until |-> watcherNow + delayMs, strikes |-> strikes]]

markSubscriptionBlocked(map, subscriptionId) ==
  markSubscriptionBackoff(map, subscriptionId, 30000, 30 * 60000)

markSubscriptionSetupRequired(map, subscriptionId) ==
  markSubscriptionBackoff(map, subscriptionId, 5 * 60000, 60 * 60000)

\* the tick's filter (lines 154-158); no subscription is in flight when a
\* tick starts, because the tick before awaited all its tasks
Actionable(subscriptionId) ==
  LET entry == blockedUntilBySubscriptionId[subscriptionId]
  IN  entry = NoEntry \/ entry.until <= tickNow

WatcherLocalsUnchanged ==
  UNCHANGED <<tickNow, subLastSeenItemId, newItems, itemIndex, lastHandledItemId,
              pendingLastSeenItemId>>
WatcherWorldUnchanged ==
  UNCHANGED <<watcherNow, storedLastSeenItemId, subscriptionStored, listedItems>>
WatcherCountsUnchanged == UNCHANGED <<postedCount, buyCount>>

\* processSubscription returns or rejects: the task's finally and the tick end
WatcherReturns ==
  /\ watcherPc' = "idle"
  /\ WatcherLocalsUnchanged

\* tick, up to its first await (line 152)
TickStarts ==
  /\ watcherPc = "idle"
  /\ watcherPc' = "list"
  /\ tickNow' = watcherNow
  /\ UNCHANGED <<subLastSeenItemId, newItems, itemIndex, lastHandledItemId,
                 pendingLastSeenItemId, blockedUntilBySubscriptionId, polledSinceBackoff>>
  /\ WatcherWorldUnchanged /\ WatcherCountsUnchanged

\* listAllEnabledSubscriptions settles (lines 153-164, 175-179)
ListSettles(s, listed) ==
  /\ watcherPc = "list"
  /\ IF listed /\ subscriptionStored[s] /\ Actionable(s)
       THEN /\ watcherPc' = "token"
            /\ subLastSeenItemId' = storedLastSeenItemId[s]
            /\ UNCHANGED <<tickNow, newItems, itemIndex, lastHandledItemId,
                           pendingLastSeenItemId>>
       ELSE WatcherReturns
  /\ UNCHANGED <<blockedUntilBySubscriptionId, polledSinceBackoff>>
  /\ WatcherWorldUnchanged /\ WatcherCountsUnchanged

\* getAccessTokenForUser settles (lines 179-196): Ok, Err with a message, or
\* a rejection, which the task's catch logs
WatcherTokenResults ==
  {[kind |-> "ok"], [kind |-> "thrown"]} \cup [kind : {"err"}, message : WatcherErrors]

TokenSettles(s, token) ==
  /\ watcherPc = "token"
  /\ IF token.kind = "err"
       THEN LET marked == IF isVintedBlockedError(token.message)
                            THEN markSubscriptionBlocked(blockedUntilBySubscriptionId, s)
                            ELSE blockedUntilBySubscriptionId
                setup == isSetupRequiredTokenError(token.message)
            IN  /\ blockedUntilBySubscriptionId' =
                     IF setup THEN markSubscriptionSetupRequired(marked, s) ELSE marked
                /\ polledSinceBackoff' =
                     IF isVintedBlockedError(token.message) \/ setup
                       THEN FALSE ELSE polledSinceBackoff
                /\ watcherPc' = IF setup THEN "notify" ELSE "idle"
       ELSE /\ watcherPc' = IF token.kind = "ok" THEN "page" ELSE "idle"
            /\ UNCHANGED <<blockedUntilBySubscriptionId, polledSinceBackoff>>
  /\ WatcherLocalsUnchanged /\ WatcherWorldUnchanged /\ WatcherCountsUnchanged

\* notifySetupRequiredIfNeeded settles (lines 183-193); its onUnknownChannel
\* may have deleted the subscription
NotifySettles(s, deleted) ==
  /\ watcherPc = "notify"
  /\ WatcherReturns
  /\ subscriptionStored' = [subscriptionStored EXCEPT ![s] = @ /\ ~deleted]
  /\ UNCHANGED <<watcherNow, storedLastSeenItemId, listedItems,
                 blockedUntilBySubscriptionId, polledSinceBackoff>>
  /\ WatcherCountsUnchanged

\* the items above lastSeen, ascending (lines 250-276)
NewItemsAbove(lastSeen) ==
  [k \in 1 .. (IF listedItems > lastSeen THEN listedItems - lastSeen ELSE 0) |-> lastSeen + k]

\* fetchPage(1) settles (lines 233-279)
WatcherPageResults == {[kind |-> "items"]} \cup [kind : {"err"}, message : WatcherErrors]

PageSettles(s, page) ==
  /\ watcherPc = "page"
  /\ IF page.kind = "err"
       THEN /\ blockedUntilBySubscriptionId' =
                 IF isVintedBlockedError(page.message)
                   THEN markSubscriptionBlocked(blockedUntilBySubscriptionId, s)
                   ELSE blockedUntilBySubscriptionId
            /\ polledSinceBackoff' =
                 IF isVintedBlockedError(page.message) THEN FALSE ELSE polledSinceBackoff
            /\ WatcherReturns
       ELSE /\ polledSinceBackoff' = TRUE
            /\ UNCHANGED blockedUntilBySubscriptionId
            /\ IF listedItems = 0
                 THEN WatcherReturns
                 ELSE IF subLastSeenItemId = NoLastSeen
                   THEN /\ watcherPc' = "update"
                        /\ pendingLastSeenItemId' = listedItems
                        /\ UNCHANGED <<tickNow, subLastSeenItemId, newItems, itemIndex,
                                       lastHandledItemId>>
                   ELSE IF NewItemsAbove(subLastSeenItemId) = <<>>
                     THEN WatcherReturns
                     ELSE /\ watcherPc' = "channel"
                          /\ newItems' = NewItemsAbove(subLastSeenItemId)
                          /\ UNCHANGED <<tickNow, subLastSeenItemId, itemIndex,
                                         lastHandledItemId, pendingLastSeenItemId>>
  /\ WatcherWorldUnchanged /\ WatcherCountsUnchanged

\* the item loop from position `from` on (lines 298-304, 469-471): items the
\* filters reject are handled at once, the first other item waits for
\* getSellerInfo; after the last item the last-seen update is called
LoopFrom(from, handled) ==
  LET matching == {k \in from .. Len(newItems) : matchesFilters(newItems[k])}
      next == CHOOSE k \in matching : \A other \in matching : k <= other
  IN  IF matching # {}
        THEN /\ watcherPc' = "seller"
             /\ itemIndex' = next
             /\ lastHandledItemId' = IF next > from THEN newItems[next - 1] ELSE handled
             /\ UNCHANGED pendingLastSeenItemId
        ELSE LET last == IF from <= Len(newItems) THEN newItems[Len(newItems)] ELSE handled
             IN  /\ lastHandledItemId' = last
                 /\ itemIndex' = Len(newItems) + 1
                 /\ IF last # NoLastSeen
                      THEN watcherPc' = "update" /\ pendingLastSeenItemId' = last
                      ELSE watcherPc' = "idle" /\ UNCHANGED pendingLastSeenItemId

\* client.channels.fetch settles (lines 281-296)
WatcherChannelResults == {"channel", "unknown channel", "failed", "not sendable"}

WatcherChannelSettles(fetched) ==
  /\ watcherPc = "channel"
  /\ CASE fetched = "channel" ->
            /\ LoopFrom(1, NoLastSeen)
            /\ UNCHANGED <<tickNow, subLastSeenItemId, newItems>>
       [] fetched = "unknown channel" ->
            /\ watcherPc' = "delete" /\ WatcherLocalsUnchanged
       [] OTHER -> WatcherReturns
  /\ UNCHANGED <<blockedUntilBySubscriptionId, polledSinceBackoff>>
  /\ WatcherWorldUnchanged /\ WatcherCountsUnchanged

\* getSellerInfo settles (lines 305-309); it resolves with the seller or null
SellerSettles ==
  /\ watcherPc = "seller"
  /\ watcherPc' = "send"
  /\ WatcherLocalsUnchanged
  /\ UNCHANGED <<blockedUntilBySubscriptionId, polledSinceBackoff>>
  /\ WatcherWorldUnchanged /\ WatcherCountsUnchanged

\* channel.send of the item's embed settles (lines 353-367); with autobuy
\* attemptInstantBuy is called at once (lines 368-373)
WatcherSendResults == {"sent", "unknown channel", "failed"}

ItemSendSettles(s, sendResult) ==
  /\ watcherPc = "send"
  /\ CASE sendResult = "sent" ->
            /\ postedCount' = CountUp(postedCount, newItems[itemIndex])
            /\ lastHandledItemId' = newItems[itemIndex]
            /\ IF autobuyEnabled(s)
                 THEN /\ watcherPc' = "buy"
                      /\ buyCount' = CountUp(buyCount, newItems[itemIndex])
                      /\ UNCHANGED <<itemIndex, pendingLastSeenItemId>>
                 ELSE /\ LoopFrom(itemIndex + 1, newItems[itemIndex])
                      /\ UNCHANGED buyCount
            /\ UNCHANGED <<tickNow, subLastSeenItemId, newItems>>
       [] sendResult = "unknown channel" ->
            /\ watcherPc' = "delete" /\ WatcherLocalsUnchanged /\ WatcherCountsUnchanged
       [] OTHER ->
            /\ IF lastHandledItemId # NoLastSeen
                 THEN /\ watcherPc' = "update"
                      /\ pendingLastSeenItemId' = lastHandledItemId
                 ELSE /\ watcherPc' = "idle"
                      /\ UNCHANGED pendingLastSeenItemId
            /\ UNCHANGED <<tickNow, subLastSeenItemId, newItems, itemIndex,
                           lastHandledItemId>>
            /\ WatcherCountsUnchanged
  /\ UNCHANGED <<blockedUntilBySubscriptionId, polledSinceBackoff>>
  /\ WatcherWorldUnchanged

\* attemptInstantBuy settles (lines 369-468): every result, Err included, is
\* answered with one status message; a rejection ends processSubscription
BuySettles(resolved) ==
  /\ watcherPc = "buy"
  /\ IF resolved
       THEN watcherPc' = "status" /\ WatcherLocalsUnchanged
       ELSE WatcherReturns
  /\ UNCHANGED <<blockedUntilBySubscriptionId, polledSinceBackoff>>
  /\ WatcherWorldUnchanged /\ WatcherCountsUnchanged

\* channel.send of the status message settles: a failure other than an
\* unknown channel continues with the next item
StatusSendSettles(sendResult) ==
  /\ watcherPc = "status"
  /\ IF sendResult = "unknown channel"
       THEN watcherPc' = "delete" /\ WatcherLocalsUnchanged
       ELSE /\ LoopFrom(itemIndex + 1, lastHandledItemId)
            /\ UNCHANGED <<tickNow, subLastSeenItemId, newItems>>
  /\ UNCHANGED <<blockedUntilBySubscriptionId, polledSinceBackoff>>
  /\ WatcherWorldUnchanged /\ WatcherCountsUnchanged

\* deleteSubscriptionForMissingChannel settles (lines 116-129): the row is
\* deleted, or deleteSubscription gave Err or rejected and the row stays
DeleteSettles(s, deleted) ==
  /\ watcherPc = "delete"
  /\ WatcherReturns
  /\ subscriptionStored' = [subscriptionStored EXCEPT ![s] = @ /\ ~deleted]
  /\ UNCHANGED <<watcherNow, storedLastSeenItemId, listedItems,
                 blockedUntilBySubscriptionId, polledSinceBackoff>>
  /\ WatcherCountsUnchanged

\* updateSubscriptionLastSeen settles (lines 246, 363, 470 and
\* subscription-service.ts 157-165): the row is written, or the database
\* call rejects and processSubscription rejects with it
updateSubscriptionLastSeen(row, id, lastSeenItemId) ==
  [row EXCEPT ![id] = lastSeenItemId]

UpdateLastSeenSettles(s, written) ==
  /\ watcherPc = "update"
  /\ WatcherReturns
  /\ storedLastSeenItemId' =
       IF written /\ subscriptionStored[s]
         THEN updateSubscriptionLastSeen(storedLastSeenItemId, s, pendingLastSeenItemId)
         ELSE storedLastSeenItemId
  /\ UNCHANGED <<watcherNow, subscriptionStored, listedItems,
                 blockedUntilBySubscriptionId, polledSinceBackoff>>
  /\ WatcherCountsUnchanged

\* a seller lists a new item: ids grow
ItemListed ==
  /\ listedItems < MaxItemId
  /\ listedItems' = listedItems + 1
  /\ UNCHANGED <<watcherNow, storedLastSeenItemId, subscriptionStored, watcherPc,
                 blockedUntilBySubscriptionId, polledSinceBackoff>>
  /\ WatcherLocalsUnchanged /\ WatcherCountsUnchanged

WatcherNowAdvances ==
  /\ watcherNow + WATCHER_STEP_MS <= MaxWatcherNow
  /\ watcherNow' = watcherNow + WATCHER_STEP_MS
  /\ UNCHANGED <<storedLastSeenItemId, subscriptionStored, listedItems, watcherPc,
                 blockedUntilBySubscriptionId, polledSinceBackoff>>
  /\ WatcherLocalsUnchanged /\ WatcherCountsUnchanged

NextWatcher ==
  \/ TickStarts /\ UNCHANGED exceptWatcher
  \/ \E s \in WatcherSubscriptions, listed \in BOOLEAN :
       ListSettles(s, listed) /\ UNCHANGED exceptWatcher
  \/ \E s \in WatcherSubscriptions, token \in WatcherTokenResults :
       TokenSettles(s, token) /\ UNCHANGED exceptWatcher
  \/ \E s \in WatcherSubscriptions, deleted \in BOOLEAN :
       NotifySettles(s, deleted) /\ UNCHANGED exceptWatcher
  \/ \E s \in WatcherSubscriptions, page \in WatcherPageResults :
       PageSettles(s, page) /\ UNCHANGED exceptWatcher
  \/ \E fetched \in WatcherChannelResults :
       WatcherChannelSettles(fetched) /\ UNCHANGED exceptWatcher
  \/ SellerSettles /\ UNCHANGED exceptWatcher
  \/ \E s \in WatcherSubscriptions, sendResult \in WatcherSendResults :
       ItemSendSettles(s, sendResult) /\ UNCHANGED exceptWatcher
  \/ \E resolved \in BOOLEAN : BuySettles(resolved) /\ UNCHANGED exceptWatcher
  \/ \E sendResult \in WatcherSendResults :
       StatusSendSettles(sendResult) /\ UNCHANGED exceptWatcher
  \/ \E s \in WatcherSubscriptions, deleted \in BOOLEAN :
       DeleteSettles(s, deleted) /\ UNCHANGED exceptWatcher
  \/ \E s \in WatcherSubscriptions, written \in BOOLEAN :
       UpdateLastSeenSettles(s, written) /\ UNCHANGED exceptWatcher
  \/ ItemListed /\ UNCHANGED exceptWatcher
  \/ WatcherNowAdvances /\ UNCHANGED exceptWatcher

SpecWatcher == InitBackoff /\ [][NextWatcher]_vars

\* ================================================================ claims

RefreshingSlots(u) == {s \in Slots : user[s] = u /\ Refreshing(s)}

\* C1: in runs where clearTokenStateForUser is not called while a refresh is in
\* progress, at most one refresh is in progress per user, and a call that
\* arrives while one is in progress starts no second refresh and completes
\* with the result of the one in progress.
C1_SingleFlightSharesResult ==
  \A u \in Users :
    ~raced[u] =>
      /\ Cardinality(RefreshingSlots(u)) <= 1
      /\ \A s \in Slots : \A t \in arrivedDuring[s] :
           user[s] = u =>
             /\ path[s] # "owner"
             /\ (pc[s] = "done" /\ pc[t] = "done") => ret[s] = ret[t]

\* C2: after an invalid_grant failure every call of the user within the next 30
\* minutes, until clearTokenStateForUser, returns the reauth error without a
\* refresh call; the first call after the clear starts a refresh again.
C2_ReauthWindow ==
  [][\A s \in Slots, u \in Users :
       getAccessTokenForUser(s, u) =>
         /\ (igUntil[u] # NoWindow /\ now < igUntil[u].until) =>
              /\ pc'[s] = "done"
              /\ ret'[s] = Err(ERR_REAUTH)
              /\ ~issued'[s]
         /\ afterClear[u] => path'[s] = "owner"]_vars

\* C3: while the user's block entry has `until` in the future every call
\* returns the blocked error without an account load or a refresh call; once
\* `until` has passed the next call attempts a refresh.
C3_BlockFailsFast ==
  [][\A s \in Slots, u \in Users :
       getAccessTokenForUser(s, u) =>
         /\ (blocked[u] # NoEntry /\ now < blocked[u].until) =>
              /\ pc'[s] = "done"
              /\ ret'[s] = Err(ERR_BLOCKED_FAST)
              /\ ~issued'[s]
         /\ (blocked[u] # NoEntry /\ now >= blocked[u].until /\ ~blockTried[u]) =>
              path'[s] \in {"owner", "joined"}]_vars

\* C4: the N-th blocked failure in a row (no success, invalid_grant or clear in
\* between) sets `until` to now + min(30 min, 30 s * 2^min(N, 6)); the strike
\* count never exceeds 6 and `until` is at most 30 minutes after it is set.
C4_BackoffDelay ==
  [][\A u \in Users :
       /\ blocked[u] # NoEntry => blocked[u].strikes <= 6
       /\ (blocked'[u] # NoEntry /\ blocked'[u] # blocked[u]) =>
            /\ nBlocked'[u] >= 1
            /\ blocked'[u].until - now =
                 Min(30 * 60 * 1000, 30 * 1000 * 2 ^ Min(nBlocked'[u], 6))
            /\ blocked'[u].strikes <= 6
            /\ blocked'[u].until - now <= 30 * 60 * 1000]_vars

\* the seventh blocked failure in a row has just set the capped delay
C4_SeventhStrike ==
  /\ nBlocked["u1"] = 7
  /\ blocked["u1"] = BlockState(now + 30 * 60 * 1000, 6)

\* two calls of one user: t obtained a token, s began before that token's
\* margin with no clearTokenStateForUser for the user since t began
OneRefreshCallFor(s, t) ==
  (pc[t] = "done" /\ ret[t].kind = "ok") => ~(issued[t] /\ issued[s])

\* C5: a call that finds a cached token more than 30 s before its expiresAtMs
\* returns that token with no account lookup and no refresh call; two calls of
\* one user, the second begun before the margin of the token the first
\* obtained (and no clearTokenStateForUser for the user in between), make at
\* most one refresh call in total.
C5_CachedTokenNoRefresh ==
  [][/\ \A s \in Slots, u \in Users :
          (/\ getAccessTokenForUser(s, u)
           /\ cache[u] # NoEntry
           /\ now < cache[u].expiresAtMs - 30 * 1000) =>
            /\ pc'[s] = "done"
            /\ ret'[s] = Ok(cache[u])
            /\ ~issued'[s]
     /\ \A s \in Slots : \A t \in clean'[s] : OneRefreshCallFor(s, t)']_vars

\* C6: clearTokenStateForUser(u) removes u's entries from the four maps in one
\* step and leaves the entries of every other user unchanged.
C6_ClearRemovesAllFour ==
  [][\A u \in Users :
       clearTokenStateForUser(u) =>
         /\ cache'[u] = NoEntry
         /\ blocked'[u] = NoEntry
         /\ reauthRequired'[u] = NoEntry
         /\ inFlight'[u] = NoSlot
         /\ \A v \in Users \ {u} :
              /\ cache'[v] = cache[v]
              /\ blocked'[v] = blocked[v]
              /\ reauthRequired'[v] = reauthRequired[v]
              /\ inFlight'[v] = inFlight[v]]_vars

\* u1 was cleared while its refresh runs and has no entry left; u2 still has
\* its block entry and its in-flight refresh
C6_ClearedBesideOtherUser ==
  /\ raced["u1"]
  /\ pc["s1"] = "refresh"
  /\ cache["u1"] = NoEntry /\ blocked["u1"] = NoEntry
  /\ reauthRequired["u1"] = NoEntry /\ inFlight["u1"] = NoSlot
  /\ blocked["u2"] # NoEntry
  /\ inFlight["u2"] = "s2"

\* C7: when a refresh succeeds, at the moment the call returns Ok the user's
\* cached token is the returned one, with expiresAtMs = (createdAt +
\* expiresIn) * 1000, and the user has no block entry and no reauth entry.
C7_SuccessLeavesCleanState ==
  [][\A s \in Slots :
       /\ \A resp \in ServerResponses :
            (RefreshDone(s, resp) /\ resp.kind = "response" /\ pc'[s] = "done") =>
              ret'[s] = Ok(CachedToken(resp.accessToken, resp.refreshToken,
                                       (resp.createdAt + resp.expiresIn) * 1000,
                                       sent[s].region))
       /\ (pc[s] = "write" /\ pc'[s] = "done" /\ ret'[s].kind = "ok") =>
            ret'[s].value.expiresAtMs = (refreshed[s].createdAt + refreshed[s].expiresIn) * 1000
       /\ (pc[s] \in {"refresh", "write"} /\ pc'[s] = "done" /\ ret'[s].kind = "ok") =>
            /\ cache'[user[s]] = ret'[s].value
            /\ blocked'[user[s]] = NoEntry
            /\ reauthRequired'[user[s]] = NoEntry]_vars

\* C8: a refresh writes the encrypted refresh token to the account store if and
\* only if it succeeded and the returned refresh token differs from the one
\* sent; a failed refresh, or one with the same token, writes nothing.
C8_WriteBackIffRotated ==
  [][/\ \A s \in Slots : \A resp \in ServerResponses :
          RefreshDone(s, resp) =>
            /\ accounts' = accounts
            /\ pc'[s] = "write" <=>
                 (resp.kind = "response" /\ resp.refreshToken # sent[s].refreshToken)
     /\ \A s \in Slots :
          WriteDone(s, TRUE) =>
            /\ refreshed[s].refreshToken # sent[s].refreshToken
            /\ accounts'[user[s]].encryptedRefreshToken =
                 [version |-> "v1", tagOk |-> TRUE, data |-> refreshed[s].refreshToken]
            /\ decryptToken(accounts'[user[s]].encryptedRefreshToken) = refreshed[s].refreshToken
     /\ (accounts' # accounts /\ pc' # pc) =>
          \E s \in Slots : pc[s] = "write" /\ pc'[s] = "done" /\ ret'[s].kind = "ok"]_vars

\* the write-back of a rotated refresh token is awaited
C8_WriteBackRunning ==
  \E s \in Slots :
    /\ pc[s] = "write"
    /\ sent[s].refreshToken = "r1"
    /\ refreshed[s].refreshToken = "r2"

\* C9: a refresh failure that is neither blocked nor invalid_grant, a missing
\* account and a failed decryption leave the user's cache, block and reauth
\* entries as they were; the last two make no refresh call.
C9_QuietFailures ==
  [][\A s \in Slots :
       LET u == user[s]
           kept == /\ cache'[u] = cache[u]
                   /\ blocked'[u] = blocked[u]
                   /\ reauthRequired'[u] = reauthRequired[u]
       IN  /\ \A resp \in ServerResponses :
               (/\ RefreshDone(s, resp)
                /\ resp.kind = "error"
                /\ ~Includes(ToLowerCase(resp.message), <<"blockiert">>)
                /\ ~Includes(ToLowerCase(resp.message), <<"invalid_grant">>)
                /\ ~Includes(ToLowerCase(resp.message), <<"authorization", "grant", "is", "invalid">>)) =>
                 /\ ret'[s] = Err(ERR_REFRESH_FAILED)
                 /\ kept
           /\ (pc[s] \in {"account", "refresh"} /\ pc'[s] = "done"
                /\ ret'[s] \in {Err(ERR_REFRESH_FAILED), Err(ERR_NO_ACCOUNT), Err(ERR_DECRYPT)}) =>
                 kept
           /\ (/\ AccountLoaded(s, TRUE)
                /\ \/ accounts[u] = NoAccount
                   \/ /\ accounts[u] # NoAccount
                      /\ accounts[u].region \in VintedRegions
                      /\ \/ accounts[u].encryptedRefreshToken.version # "v1"
                         \/ ~accounts[u].encryptedRefreshToken.tagOk) =>
                 /\ pc'[s] = "done"
                 /\ ret'[s] = IF accounts[u] = NoAccount THEN Err(ERR_NO_ACCOUNT)
                               ELSE Err(ERR_DECRYPT)
                 /\ ~issued'[s]
                 /\ kept
           /\ ((pc[s] \in {"idle", "done"} /\ pc'[s] = "account")
                \/ (pc[s] = "account" /\ pc'[s] = "refresh")) => kept]_vars

\* a refresh has completed with the generic failure beside an older block entry
C9_FailedBesideBlockEntry ==
  \E s \in Slots :
    /\ pc[s] = "done" /\ path[s] = "owner"
    /\ ret[s] = Err(ERR_REFRESH_FAILED)
    /\ blocked[user[s]] # NoEntry

\* C10 as stated: a reauth entry is removed only by clearTokenStateForUser and
\* by no outcome of getAccessTokenForUser; stated for the users that had no
\* clear during a refresh, whose refreshes run one at a time.
C10_ReauthRemovedOnlyByClear ==
  [][\A u \in Users :
       (~raced[u] /\ reauthRequired[u] # NoEntry /\ reauthRequired'[u] = NoEntry) =>
         clearTokenStateForUser(u)]_vars

\* C10, amended: a reauth entry is removed only by clearTokenStateForUser or
\* by a refresh of the user that completes with Ok.
C10_ReauthRemovedByClearOrSuccess ==
  [][\A u \in Users :
       (reauthRequired[u] # NoEntry /\ reauthRequired'[u] = NoEntry) =>
         \/ clearTokenStateForUser(u)
         \/ \E s \in Slots :
              /\ user[s] = u
              /\ pc[s] \in {"refresh", "write"}
              /\ pc'[s] = "done"
              /\ ret'[s].kind = "ok"]_vars

\* an invalid_grant failure, no clear since, and a later refresh has removed
\* the reauth entry and cached a token
C10_RemovedBySuccess ==
  /\ igUntil["u1"] # NoWindow
  /\ reauthRequired["u1"] = NoEntry
  /\ cache["u1"] # NoEntry

\* C11: every completed call of getAccessTokenForUser, the owner of a refresh
\* or a caller that awaited a shared one, completes with Ok or Err and never
\* with a thrown exception, whichever collaborator failed.
C11_AlwaysResult ==
  \A s \in Slots : pc[s] = "done" => ret[s].kind \in {"ok", "err"}

\* C12: one refreshToken call makes at most 3 attempts; an attempt answered
\* with a blocked or invalid_grant error is the last one (a first-attempt
\* invalid_grant gives exactly 1 attempt); two transient failures followed by
\* a token on the third attempt give Ok.
C12_BoundedRetry ==
  LET lower(i) == ToLowerCase(rtLog[i].message)
      fatal(i) == /\ rtLog[i].kind = "error"
                  /\ \/ Includes(lower(i), <<"blockiert">>)
                     \/ Includes(lower(i), <<"invalid_grant">>)
                     \/ Includes(lower(i), <<"authorization", "grant", "is", "invalid">>)
      transient(i) == rtLog[i].kind = "error" /\ ~fatal(i)
  IN  /\ rtAttempts <= 3
      /\ Len(rtLog) <= rtAttempts
      /\ \A i \in 1..Len(rtLog) :
           fatal(i) => /\ i = Len(rtLog)
                       /\ rtAttempts = i
                       /\ rtPc = "done"
                       /\ rtResult.kind = "err"
      /\ (/\ Len(rtLog) = 3
          /\ transient(1) /\ transient(2)
          /\ rtLog[3].kind = "json" /\ ~rtLog[3].errors /\ rtLog[3].typed) =>
           /\ rtPc = "done"
           /\ rtResult = Ok(rtLog[3].token)

\* two transient failures, then the third attempt brought the token
C12_ThirdAttemptSucceeds ==
  /\ rtPc = "done"
  /\ rtAttempts = 3
  /\ Len(rtLog) = 3
  /\ rtLog[1].kind = "error" /\ rtLog[2].kind = "error"
  /\ rtResult.kind = "ok"

\* the answer to the i-th PUT says the purchase is completed
AnswerCompleted(i) ==
  scAnswers[i].kind = "json" /\ isCheckoutPurchaseCompleted(scAnswers[i])

\* the answer sendCheckoutUpdate took as the result of the first round: the
\* answer to the last PUT sent in round 1
FirstRoundLast ==
  CHOOSE i \in DOMAIN scPuts :
    /\ scPuts[i].round = 1
    /\ \A j \in DOMAIN scPuts : scPuts[j].round = 1 => j <= i

\* C14: within one submitCheckoutPurchase call no PUT follows an answer that
\* says the purchase is completed; a PUT of the second round is sent only
\* when the first round succeeded (a JSON answer without an errors payload),
\* did not say completed and returned reusable components, and it carries
\* those components; the call makes at most two rounds.
C14_PutRounds ==
  /\ scRound <= 2
  /\ \A i \in DOMAIN scPuts : scPuts[i].round \in 1..2
  /\ \A i \in DOMAIN scAnswers : AnswerCompleted(i) => Len(scPuts) = i
  /\ \A j \in DOMAIN scPuts :
       scPuts[j].round = 2 =>
         /\ FirstRoundLast \in DOMAIN scAnswers
         /\ LET first == scAnswers[FirstRoundLast]
            IN  /\ first.kind = "json"
                /\ ~first.errors
                /\ ~isCheckoutPurchaseCompleted(first)
                /\ first.components # NoComponents
                /\ scPuts[j].components = first.components

\* a call whose first round was answered without completion and with
\* components, sent the second round and was told there that the item is bought
C14_SecondRoundCompletes ==
  /\ scPc = "done"
  /\ scRound = 2
  /\ \E j \in DOMAIN scPuts : scPuts[j].round = 2
  /\ AnswerCompleted(Len(scAnswers))
  /\ scResult = Purchased(TRUE)

\* the call that was answered last, and its answer
LastCall == calls[Len(answers)]
LastAnswer == answers[Len(answers)]

\* C13: attemptCheckoutBuild, attemptInstantBuy and attemptMakeOffer return
\* an Err result only when getAccessTokenForUser or getAccountForUser
\* answered with an error or parseRegion rejected the account's region; when
\* the last answer is a failure of createConversationTransaction,
\* buildCheckout, submitCheckoutPurchase, sendOffer or estimateOfferWithFees
\* the function returns an Ok result whose value carries a status.
C13_ErrOnlyFromTokenAccountRegion ==
  step = "done" =>
    /\ attemptResult.kind = "err" =>
         \/ LastCall.fn = "getAccessTokenForUser" /\ LastAnswer.kind = "err"
         \/ LastCall.fn = "getAccountForUser" /\ LastAnswer.kind = "err"
         \/ /\ LastCall.fn = "getAccountForUser"
            /\ LastAnswer.kind = "ok"
            /\ parseRegion(LastAnswer.region).kind = "err"
    /\ ( /\ LastCall.fn \in {"createConversationTransaction", "buildCheckout",
                             "submitCheckoutPurchase", "sendOffer",
                             "estimateOfferWithFees"}
         /\ LastAnswer.kind = "err" )
       => /\ attemptResult.kind = "ok"
          /\ attemptResult.value.status \in
               {"blocked", "access_denied", "invalid_pickup_point", "failed",
                "manual_checkout_required"}

\* an offer whose sendOffer and estimateOfferWithFees both failed resolved
\* with an Ok result that carries the failure status
C13_OfferFailedTwice ==
  /\ running = "attemptMakeOffer"
  /\ step = "done"
  /\ Len(answers) >= 3
  /\ LastCall.fn = "estimateOfferWithFees"
  /\ LastAnswer.kind = "err"
  /\ answers[Len(answers) - 1].kind = "err"
  /\ attemptResult.kind = "ok"
  /\ attemptResult.value.status \in {"blocked", "access_denied", "failed"}

\* the submitCheckoutPurchase calls made so far
SubmitCalls == {i \in DOMAIN calls : calls[i].fn = "submitCheckoutPurchase"}

\* the status the claim names for the answer of the one submit
ExpectedSubmitStatus(o) ==
  IF o.kind = "ok"
    THEN IF o.purchased
           THEN IF checkoutAttempt.status = "ready" THEN "purchased"
                ELSE "purchased_without_pickup"
           ELSE "manual_checkout_required"
    ELSE IF classifyCheckoutErrorMessage(o.error) \in {"blocked", "access_denied"}
      THEN classifyCheckoutErrorMessage(o.error)
      ELSE "failed"

\* attemptInstantBuy returned a result (not the error of a token call) for a
\* build that was ready or ready_without_pickup
ReturnedForReadyBuild ==
  /\ running = "attemptInstantBuy"
  /\ step = "done"
  /\ checkoutAttempt # NoResult
  /\ IsReady(checkoutAttempt)
  /\ attemptResult.kind = "ok"

\* the claim's mapping, for the purchase id the URL carries
SubmitMapping(purchaseId) ==
  IF ~purchaseId.null /\ purchaseId.n > 0
    THEN /\ Cardinality(SubmitCalls) = 1
         /\ \A i \in SubmitCalls :
              /\ calls[i].id = purchaseId.n
              /\ attemptResult.value.status = ExpectedSubmitStatus(answers[i])
    ELSE /\ SubmitCalls = {}
         /\ attemptResult.value.status = "failed"

\* C15: when the build is ready or ready_without_pickup and the checkout URL
\* has a positive purchase_id, attemptInstantBuy calls submitCheckoutPurchase
\* exactly once, with that id, and returns purchased / purchased_without_pickup
\* when the submit confirms, manual_checkout_required when it succeeds without
\* confirming, blocked or access_denied when its error is so classified and
\* failed for any other error; when the URL has no positive purchase_id it
\* returns failed and has made no submit call.
C15_SubmitOfReadyCheckout ==
  ReturnedForReadyBuild =>
    SubmitMapping(extractPurchaseIdFromCheckoutUrl(checkoutAttempt.checkoutUrl))

\* the i-th call is a buildCheckout that was answered without a checkout URL
\* and with a captcha challenge URL
AnsweredWithChallenge(i) ==
  /\ i \in DOMAIN answers
  /\ calls[i].fn = "buildCheckout"
  /\ answers[i].kind = "ok"
  /\ answers[i].checkoutUrl.null
  /\ TrimmedChallenge(answers[i].challengeUrl) # NoUrl

\* C16: after a buildCheckout response without checkout URL that carries a
\* captcha challenge URL the buy attempt calls no dependency any more (no
\* buildCheckout without pickup point, none with the original item id, no
\* submitCheckoutPurchase) and returns status blocked with that challenge URL.
C16_ChallengeStopsAttempt ==
  \A i \in DOMAIN calls :
    AnsweredWithChallenge(i) =>
      /\ Len(calls) = i
      /\ step = "done"
      /\ attemptResult.kind = "ok"
      /\ attemptResult.value.status = "blocked"
      /\ attemptResult.value.challengeUrl = TrimmedChallenge(answers[i].challengeUrl)

\* an instant buy of an account with a pickup point whose transaction id
\* differs from the item id was answered with a challenge URL and returned
C16_BlockedByChallenge ==
  /\ running = "attemptInstantBuy"
  /\ step = "done"
  /\ hasPickupPoint
  /\ transactionId # ItemId
  /\ \E i \in DOMAIN calls : AnsweredWithChallenge(i)
  /\ attemptResult = Ok(Buy("blocked", CaptchaUrl))

\* the i-th call is the first buildCheckout of a build attempt (it passes the
\* account's pickup point) and has been answered
FirstBuildAnswered(i) ==
  /\ i \in DOMAIN answers
  /\ calls[i].fn = "buildCheckout"
  /\ calls[i].pickupPoint # "omitted"

\* the answer to the first buildCheckout for which the claim expects the
\* retry: no checkout URL and no challenge URL, or an invalid_pickup_point error
AsksForRetryWithoutPickup(o) ==
  IF o.kind = "ok"
    THEN o.checkoutUrl.null /\ TrimmedChallenge(o.challengeUrl) = NoUrl
    ELSE classifyCheckoutErrorMessage(o.error) = "invalid_pickup_point"

\* the buildCheckout calls for item id without a pickup point
CallsWithoutPickup(id) ==
  {j \in DOMAIN calls :
     calls[j] = Call("buildCheckout", id, "omitted")}

\* C17: with a stored pickup point, when the first buildCheckout for an item
\* id returns neither checkout URL nor challenge URL or fails with an
\* invalid_pickup_point error, buildCheckout is called exactly once more for
\* that item id, without pickup point, and a checkout URL from that call
\* makes the build ready_without_pickup with that URL; without a stored
\* pickup point no buildCheckout is called without pickup point.
C17_RetryWithoutPickupOnce ==
  /\ \A i \in DOMAIN calls :
       (FirstBuildAnswered(i) /\ hasPickupPoint /\ AsksForRetryWithoutPickup(answers[i]))
         => /\ CallsWithoutPickup(calls[i].id) = {i + 1}
            /\ Cardinality({j \in DOMAIN calls :
                              calls[j].fn = "buildCheckout" /\ calls[j].id = calls[i].id}) = 2
            /\ (i + 1 \in DOMAIN answers
                  /\ answers[i + 1].kind = "ok"
                  /\ ~answers[i + 1].checkoutUrl.null)
                 => checkoutAttempt =
                      Ready("ready_without_pickup", answers[i + 1].checkoutUrl)
  /\ ~hasPickupPoint => \A j \in DOMAIN calls : calls[j].pickupPoint # "omitted"

\* the build attempt with the original item id failed with an
\* invalid_pickup_point error, its retry without pickup point returned a
\* checkout URL, and the build ended ready_without_pickup
C17_SecondAttemptReadyWithoutPickup ==
  /\ step = "done"
  /\ hasPickupPoint
  /\ Len(buildAttempts) = 2
  /\ Len(answers) >= 2
  /\ calls[Len(answers)] = Call("buildCheckout", ItemId, "omitted")
  /\ FirstBuildAnswered(Len(answers) - 1)
  /\ answers[Len(answers) - 1].kind = "err"
  /\ AsksForRetryWithoutPickup(answers[Len(answers) - 1])
  /\ checkoutAttempt.status = "ready_without_pickup"

\* the build attempt with the resolved transaction id has returned
FirstAttemptReturned == firstResult # NoResult

\* C18 as stated: when the build attempt with the transaction id ends in a
\* status other than ready or ready_without_pickup, the transaction id
\* differs from the item id and the result has no challenge URL, exactly one
\* more build attempt is made, with the original item id; otherwise none.
C18_RetryForEveryStatus ==
  FirstAttemptReturned =>
    IF /\ ~IsReady(firstResult)
       /\ transactionId # ItemId
       /\ ~hasChallengeUrl(firstResult)
      THEN buildAttempts = <<transactionId, ItemId>>
      ELSE buildAttempts = <<transactionId>>

\* C18, amended: the further build attempt with the original item id is
\* made, exactly once, when the first attempt ends blocked, failed or
\* invalid_pickup_point, the transaction id differs from the item id and the
\* result has no challenge URL; when the first attempt ends access_denied
\* (or ready), the ids are equal or the result has a challenge URL, no
\* further attempt is made.
C18_RetryWithOriginalItemId ==
  FirstAttemptReturned =>
    IF /\ firstResult.status \in {"blocked", "failed", "invalid_pickup_point"}
       /\ transactionId # ItemId
       /\ ~hasChallengeUrl(firstResult)
      THEN buildAttempts = <<transactionId, ItemId>>
      ELSE buildAttempts = <<transactionId>>

\* the attempt with a transaction id of its own failed, the build was
\* attempted again with the item id and has returned
C18_RetriedWithOriginalItemId ==
  /\ step = "done"
  /\ FirstAttemptReturned
  /\ firstResult.status = "failed"
  /\ transactionId # ItemId
  /\ buildAttempts = <<transactionId, ItemId>>
  /\ checkoutAttempt # NoResult

\* attemptInstantBuy returned from the direct-submit fallback
\* (attemptSubmitWithoutCheckoutUrl submitted at least one candidate)
FallbackReturned ==
  /\ running = "attemptInstantBuy"
  /\ step = "done"
  /\ candidate >= 1
  /\ attemptResult.kind = "ok"

\* the answers of the direct submits
DirectSubmits == {i \in DOMAIN answers : calls[i].fn = "submitCheckoutPurchase"}

SubmitFailed(i, class) ==
  answers[i].kind = "err" /\ classifyCheckoutErrorMessage(answers[i].error) = class

\* the status the claim gives the fallback; otherwise is its status when no
\* submit confirmed, none succeeded and none failed access_denied or blocked
FallbackStatus(otherwise) ==
  IF \E i \in DirectSubmits : answers[i].kind = "ok" /\ answers[i].purchased
    THEN "purchased"
  ELSE IF \E i \in DirectSubmits : answers[i].kind = "ok"
    THEN "manual_checkout_required"
  ELSE IF \E i \in DirectSubmits : SubmitFailed(i, "access_denied") THEN "access_denied"
  ELSE IF \E i \in DirectSubmits : SubmitFailed(i, "blocked") THEN "blocked"
  ELSE otherwise

\* the candidates are the merged candidates of the build result and are
\* submitted in their order; a confirming submit is the last call
SubmittedInOrder ==
  /\ purchaseIdCandidates = getPurchaseIdCandidatesFromCheckoutResult(checkoutAttempt)
  /\ Cardinality(DirectSubmits) = candidate
  /\ \A k \in 1..candidate :
       calls[Len(calls) - candidate + k] = DirectSubmitCall(purchaseIdCandidates[k])
  /\ \A i \in DirectSubmits :
       (answers[i].kind = "ok" /\ answers[i].purchased) => i = Len(calls)
  /\ (\A i \in DirectSubmits : ~(answers[i].kind = "ok" /\ answers[i].purchased))
       => candidate = Len(purchaseIdCandidates)

\* C19 as stated: the first confirming submit ends the loop with purchased;
\* else manual_checkout_required when a submit succeeded without confirming;
\* else the most severe class of the failures: access_denied, then blocked,
\* then failed.
C19_FallbackMostSevereOrFailed ==
  FallbackReturned =>
    /\ SubmittedInOrder
    /\ attemptResult.value.status = FallbackStatus("failed")

\* C19, amended: as stated, except that failures that are all classified
\* neither access_denied nor blocked give manual_checkout_required.
C19_FallbackVerdict ==
  FallbackReturned =>
    /\ SubmittedInOrder
    /\ attemptResult.value.status = FallbackStatus("manual_checkout_required")

\* both candidates were submitted; one failed blocked, one access_denied, and
\* the result is access_denied
C19_AccessDeniedOverBlocked ==
  /\ FallbackReturned
  /\ candidate = 2
  /\ \E i \in DirectSubmits : SubmitFailed(i, "blocked")
  /\ \E i \in DirectSubmits : SubmitFailed(i, "access_denied")
  /\ attemptResult.value.status = "access_denied"

\* the build ended blocked because the checkout URL was missing, without a
\* challenge URL
BlockedByMissingUrl ==
  /\ checkoutAttempt # NoResult
  /\ checkoutAttempt.status = "blocked"
  /\ checkoutAttempt.source \in {"missing_checkout_url", "fallback_missing_checkout_url"}
  /\ TrimmedChallenge(checkoutAttempt.challengeUrl) = NoUrl

\* every candidate was submitted and each submit failed with an error that
\* is classified neither blocked nor access_denied
AllSubmitsFailedOtherwise ==
  /\ DirectSubmits # {}
  /\ Cardinality(DirectSubmits) = Len(checkoutAttempt.purchaseIdCandidates)
  /\ \A i \in DirectSubmits :
       /\ answers[i].kind = "err"
       /\ classifyCheckoutErrorMessage(answers[i].error) \notin {"blocked", "access_denied"}

\* C20: when the build ended blocked for a missing checkout URL (no
\* challenge URL) and every direct submit against the candidates failed with
\* an error classified neither blocked nor access_denied, attemptInstantBuy
\* returns manual_checkout_required.
C20_UnknownSubmitFailuresAreManual ==
  ( /\ running = "attemptInstantBuy"
    /\ step = "done"
    /\ BlockedByMissingUrl
    /\ AllSubmitsFailedOtherwise )
  => /\ attemptResult.kind = "ok"
     /\ attemptResult.value.status = "manual_checkout_required"

\* both build attempts ended without checkout URL, both candidates were
\* submitted and failed with errors of class failed or invalid_pickup_point
C20_BothCandidatesFailed ==
  /\ running = "attemptInstantBuy"
  /\ step = "done"
  /\ BlockedByMissingUrl
  /\ Len(checkoutAttempt.purchaseIdCandidates) = 2
  /\ AllSubmitsFailedOtherwise
  /\ \E i \in DirectSubmits : SubmitFailed(i, "failed")
  /\ \E i \in DirectSubmits : SubmitFailed(i, "invalid_pickup_point")
  /\ attemptResult = Ok(Buy("manual_checkout_required", NoUrl))

\* the status code of the classified message: its first parenthesized number
InputStatus ==
  IF clInput.status # "" THEN clInput.status ELSE clInput.later

\* C21: classifyCheckoutErrorMessage returns access_denied when the message
\* has an access-denied hint and its status code is 401, 403 or absent;
\* otherwise blocked when it has a block keyword or status 403; otherwise
\* invalid_pickup_point when it has a pickup hint; otherwise failed.  A 403
\* message with an access-denied hint is never classified blocked.
C21_ClassificationOrder ==
  clStatus # "none" =>
    /\ clStatus =
         IF clInput.denied # <<>> /\ InputStatus \in {"(401)", "(403)", ""}
           THEN "access_denied"
         ELSE IF clInput.block # <<>> \/ InputStatus = "(403)" THEN "blocked"
         ELSE IF clInput.pickup # <<>> THEN "invalid_pickup_point"
         ELSE "failed"
    /\ (clInput.denied # <<>> /\ InputStatus = "(403)") => clStatus # "blocked"

\* a 403 message with a captcha URL and an access-denied hint was classified
C21_DeniedWith403AndCaptcha ==
  /\ clInput.status = "(403)"
  /\ clInput.denied = <<"access_denied">>
  /\ clInput.block = <<CaptchaUrl>>
  /\ clStatus = "access_denied"

\* the calls of one dependency made so far
CallsOf(fn) == {i \in DOMAIN calls : calls[i].fn = fn}

\* the id the offer has to be sent against: the transaction id that
\* createConversationTransaction answered, the item id when it was not called
\* or failed
OfferTarget ==
  IF \E i \in CallsOf("createConversationTransaction") :
       i \in DOMAIN answers /\ answers[i].kind = "ok"
    THEN answers[CHOOSE i \in CallsOf("createConversationTransaction") : TRUE].transactionId
    ELSE ItemId

\* C22: attemptMakeOffer calls createConversationTransaction only when a
\* seller id is given and sends the offer, once, against the transaction id
\* it answered, or against the item id when it was not called or failed;
\* estimateOfferWithFees is called only right after a failed sendOffer; after
\* a failed send the result is sent=false with status access_denied or
\* blocked when the send error is so classified and failed otherwise, with
\* the estimate exactly when the estimate call succeeded.
C22_OfferTargetAndFallback ==
  running = "attemptMakeOffer" =>
    /\ sellerUserId <= 0 => CallsOf("createConversationTransaction") = {}
    /\ Cardinality(CallsOf("createConversationTransaction")) <= 1
    /\ Cardinality(CallsOf("sendOffer")) <= 1
    /\ (step = "done" /\ attemptResult.kind = "ok")
         => Cardinality(CallsOf("sendOffer")) = 1
    /\ \A i \in CallsOf("sendOffer") : calls[i].id = OfferTarget
    /\ \A j \in CallsOf("estimateOfferWithFees") :
         /\ j - 1 \in CallsOf("sendOffer")
         /\ answers[j - 1].kind = "err"
    /\ \A i \in CallsOf("sendOffer") :
         (step = "done" /\ answers[i].kind = "err") =>
           LET class == classifyCheckoutErrorMessage(answers[i].error)
               estimate == answers[Len(answers)]
           IN  /\ Len(answers) = i + 1
               /\ attemptResult =
                    Ok(Offer(FALSE,
                             IF class \in {"access_denied", "blocked"} THEN class
                             ELSE "failed",
                             IF estimate.kind = "ok" THEN estimate.value ELSE "none"))

\* with a seller id, the transaction could not be resolved, the offer was
\* sent against the item id and failed with a pickup error, the estimate
\* succeeded
C22_FailedOfferWithEstimate ==
  /\ running = "attemptMakeOffer"
  /\ step = "done"
  /\ sellerUserId > 0
  /\ \E i \in CallsOf("createConversationTransaction") : answers[i].kind = "err"
  /\ \E i \in CallsOf("sendOffer") :
       /\ calls[i].id = ItemId
       /\ answers[i].kind = "err"
       /\ classifyCheckoutErrorMessage(answers[i].error) = "invalid_pickup_point"
  /\ attemptResult = Ok(Offer(FALSE, "failed", "estimate"))

\* the captured values a request carries
AttachedValues(headers) ==
  ({headers.cookie[n] : n \in CookieNames} \cup {headers.anonId, headers.vUdt, headers.incognia})
    \ {NoEntry}

InFlight(p) == fetchJsonCalls[p].pc \in {"fetch", "retry", "curl"}

\* C23: for any interleaving of requests issued with distinct session keys,
\* every cookie and every remembered header value (anon id, v_udt, incognia
\* token) attached to a request was captured from a response to a request
\* issued with that request's own session key, and each scope's jar and header
\* cache hold only values captured under that scope.
C23_SessionIsolation ==
  /\ \A p \in Callers :
       InFlight(p) =>
         \A v \in AttachedValues(fetchJsonCalls[p].headers) :
           v.capturedWith = fetchJsonCalls[p].sessionScope
  /\ \A at \in SessionScopes \X Hosts :
       /\ \A n \in CookieNames :
            cookieJarByScopeHost[at][n] # NoEntry =>
              normalizeSessionScope(cookieJarByScopeHost[at][n].capturedWith) = at[1]
       /\ \A n \in RememberedHeaders :
            dynamicHeadersByScopeHost[at][n] # NoEntry =>
              normalizeSessionScope(dynamicHeadersByScopeHost[at][n].capturedWith) = at[1]

\* a request of user-a carries user-a's cookie and header while the jar of
\* user-b holds a cookie for the same host
C23_TwoSessionsOnOneHost ==
  \E p \in Callers :
    /\ InFlight(p)
    /\ fetchJsonCalls[p].sessionScope = "user-a"
    /\ fetchJsonCalls[p].headers.cookie["anon_id"] # NoEntry
    /\ fetchJsonCalls[p].headers.anonId # NoEntry
    /\ cookieJarByScopeHost[<<"user-b", fetchJsonCalls[p].host>>]["anon_id"] # NoEntry

\* the jar of the scope and host of a call
JarOf(call) == <<normalizeSessionScope(call.sessionScope), call.host>>

\* C24: every response received through either backend passes through the
\* capture step: the jar of a scope and host holds, for each cookie name, the
\* value the latest response for that scope and host set (none once it was set
\* empty), and a request that starts carries exactly those cookies.
C24_EveryResponseIsCaptured ==
  /\ [](\A at \in SessionScopes \X Hosts : cookieJarByScopeHost[at] = setCookieByScopeHost[at])
  /\ [][\A p \in Callers :
          (fetchJsonCalls[p].pc = "idle" /\ fetchJsonCalls'[p].pc # "idle") =>
            fetchJsonCalls'[p].headers.cookie = setCookieByScopeHost[JarOf(fetchJsonCalls'[p])]]_vars

\* the same for the responses fetch received and requests of the default profile
C24_FetchResponsesAreCaptured ==
  /\ [](\A at \in SessionScopes \X Hosts :
          (\A p \in Callers : fetchJsonCalls[p].curlCalls = 0) =>
            cookieJarByScopeHost[at] = setCookieByScopeHost[at])
  /\ [][\A p \in Callers :
          (/\ fetchJsonCalls[p].pc = "idle" /\ fetchJsonCalls'[p].pc # "idle"
           /\ fetchJsonCalls'[p].requestProfile = "default") =>
            fetchJsonCalls'[p].headers.cookie = cookieJarByScopeHost[JarOf(fetchJsonCalls'[p])]]_vars

\* fetch answered the call with 401 or 403 in auto mode
FetchRefused(p) ==
  /\ httpBackend = "auto"
  /\ fetchJsonCalls[p].res # NoEntry
  /\ fetchJsonCalls[p].res.status \in {401, 403}

\* C25: in auto mode a request that fetch answered with 401 or 403 is retried
\* through curl exactly once before a failure is returned, curl is invoked at
\* most once for the request, and a result that is Ok is returned.
C25_RetriedOnceThroughCurl ==
  \A p \in Callers :
    FetchRefused(p) =>
      /\ fetchJsonCalls[p].curlCalls <= 1
      /\ fetchJsonCalls[p].pc = "done" => fetchJsonCalls[p].curlCalls = 1

\* the same for the answers that are no bot block
C25_RetriedOnceUnlessBlocked ==
  \A p \in Callers :
    (/\ FetchRefused(p)
     /\ ~looksLikeBotBlock(fetchJsonCalls[p].res.status, fetchJsonCalls[p].res.contentType,
                           fetchJsonCalls[p].res.text)) =>
      /\ fetchJsonCalls[p].curlCalls <= 1
      /\ fetchJsonCalls[p].pc = "done" => fetchJsonCalls[p].curlCalls = 1

\* the call started after the failure
StartedAfter(call, f) == call.pc # "idle" /\ call.index > f.started

\* C26: in auto mode, after fetch rejected or answered with a bot block,
\* every request started during the following 30 minutes goes to curl without
\* trying fetch; a request started when every such failure (and every other
\* 403) is at least 30 minutes old tries fetch, whatever 401 answers came in
\* between, so a 401 neither opens nor extends the window.
C26_CurlWindow ==
  httpBackend = "auto" =>
    \A p \in Callers :
      LET call == fetchJsonCalls[p]
      IN  /\ \A f \in fetchFailures :
               (/\ f.kind \in {"threw", "blocked"}
                /\ StartedAfter(call, f)
                /\ call.startedAt < f.at + PREFER_CURL_MS) => ~call.triedFetch
          /\ (/\ call.pc # "idle"
              /\ \A f \in fetchFailures :
                   StartedAfter(call, f) => call.startedAt >= f.at + PREFER_CURL_MS)
               => call.triedFetch

\* the same with the window counted from the rejection of fetch only
C26_CurlWindowAfterRejection ==
  httpBackend = "auto" =>
    \A p \in Callers :
      LET call == fetchJsonCalls[p]
      IN  /\ \A f \in fetchFailures :
               (/\ f.kind = "threw"
                /\ StartedAfter(call, f)
                /\ call.startedAt < f.at + PREFER_CURL_MS) => ~call.triedFetch
          /\ (/\ call.pc # "idle"
              /\ \A f \in fetchFailures :
                   StartedAfter(call, f) => call.startedAt >= f.at + PREFER_CURL_MS)
               => call.triedFetch

\* the body is an interstitial page
HasInterstitialMarker(text) ==
  \/ Includes(ToLowerCase(text), <<"<!doctype", "html">>)
  \/ Includes(ToLowerCase(text), <<"<title>vinted</title">>)
  \/ Includes(ToLowerCase(text), <<"just", "a", "moment">>)

IsHtml(contentType) == Includes(ToLowerCase(contentType), <<"text/html">>)

\* the responses the calls have received
ReceivedResponses == {fetchJsonCalls[p].res : p \in Callers} \ {NoEntry}

\* C27: a response is classified as an anti-bot block exactly when its status
\* is 403 and its content-type is HTML or its body contains an interstitial
\* marker, and such a response yields the one blocked error message whether
\* the fetch backend or the curl backend received it.
C27_SameBlockedMessage ==
  \A res \in ReceivedResponses :
    LET block == res.status = 403 /\ (IsHtml(res.contentType) \/ HasInterstitialMarker(res.text))
    IN  /\ looksLikeBotBlock(res.status, res.contentType, res.text) <=> block
        /\ block =>
             /\ fetchJsonResult(res) = Err(toVintedBlockedError)
             /\ fetchJsonViaCurlResult(res) = Err(toVintedBlockedError)

\* the same for the responses whose body contains an interstitial marker
C27_SameMessageForMarkedBodies ==
  \A res \in ReceivedResponses :
    LET block == res.status = 403 /\ (IsHtml(res.contentType) \/ HasInterstitialMarker(res.text))
    IN  /\ looksLikeBotBlock(res.status, res.contentType, res.text) <=> block
        /\ (res.status = 403 /\ HasInterstitialMarker(res.text)) =>
             /\ fetchJsonResult(res) = Err(toVintedBlockedError)
             /\ fetchJsonViaCurlResult(res) = Err(toVintedBlockedError)
        /\ ~block =>
             fetchJsonResult(res) = fetchJsonViaCurlResult(res)

\* the answer is a failure with 401, 403 or an explicit access-denied error;
\* the blocked message stands for a 403 that looks like a bot block
AuthFailure(o) ==
  /\ o.kind = "error"
  /\ \/ \E w \in {"(401)", "(403)", "access_denied"} : HasWord(ToLowerCase(o.message), w)
     \/ o.message = toVintedBlockedError

\* the requests of the action that runs, with the Authorization flag of each
\* and the answers so far
SentRequests ==
  IF vcAction # "none"
  THEN [i \in DOMAIN vcRequests |-> vcRequests[i].headers.authorization]
  ELSE [i \in DOMAIN scPuts |-> scPuts[i].authorization]

ReceivedAnswers == IF vcAction # "none" THEN vcAnswers ELSE scAnswers

\* the latest request before i that carried no Authorization header
LatestCookieOnly(i) ==
  CHOOSE j \in 1..(i - 1) :
    /\ ~SentRequests[j]
    /\ \A k \in (j + 1)..(i - 1) : SentRequests[k]

\* C28 as stated: the first request of a mutating action carries no
\* Authorization header, and a Bearer request is sent only after the
\* cookie-only attempt before it failed with 401, 403 or access denied.
C28_BearerOnlyAfterAuthFailure ==
  /\ Len(SentRequests) > 0 => ~SentRequests[1]
  /\ \A i \in DOMAIN SentRequests :
       SentRequests[i] => i > 1 /\ AuthFailure(ReceivedAnswers[LatestCookieOnly(i)])

\* C28, amended: as above, and buildCheckout also sends its preflight and its
\* repeated build with a Bearer header after the build failed with a message
\* that names cloudflare, captcha or blockiert.
C28_BearerAfterAuthFailureOrPriming ==
  /\ Len(SentRequests) > 0 => ~SentRequests[1]
  /\ \A i \in DOMAIN SentRequests :
       SentRequests[i] =>
         /\ i > 1
         /\ LET first == ReceivedAnswers[LatestCookieOnly(i)]
            IN  \/ AuthFailure(first)
                \/ /\ vcAction = "buildCheckout"
                   /\ first.kind = "error"
                   /\ \E w \in {"cloudflare", "captcha", "blockiert"} :
                        HasWord(ToLowerCase(first.message), w)
                   /\ vcRequests[i].endpoint = "catalog/items" \/ vcRequests[i - 1].endpoint = "catalog/items"

\* buildCheckout failed with a 503 that names cloudflare, sent its preflight
\* and repeats the build, both with the Bearer header
C28_BuildRepeatedAfterPreflight ==
  /\ vcAction = "buildCheckout"
  /\ vcPc = "primed"
  /\ vcAnswers[1] = ErrorResponse(ERR_CLOUDFLARE_503)
  /\ vcRequests[2].headers.authorization
  /\ vcRequests[3].headers.authorization

\* the answer signals a captcha-delivery challenge URL
SignalsChallenge(o) == o.kind = "error" /\ extractCaptchaChallengeUrl(o.message) # NoUrl

\* C29: when the answer to the checkout build signals a captcha-delivery
\* challenge URL, buildCheckout fetches that URL once and then repeats the
\* build once, three requests in all; if the repeated build signals a
\* challenge again, the result is Ok with no checkout URL and with the
\* challenge URL as a field.
C29_ChallengePrimedOnce ==
  (vcAction = "buildCheckout" /\ Len(vcAnswers) >= 1 /\ SignalsChallenge(vcAnswers[1])) =>
    /\ Len(vcRequests) <= 3
    /\ Len(vcRequests) >= 2 => vcRequests[2].endpoint = CaptchaUrl
    /\ Len(vcRequests) >= 3 => vcRequests[3].endpoint = "purchases/checkout/build"
    /\ vcPc = "done" =>
         /\ Len(vcRequests) = 3
         /\ SignalsChallenge(vcAnswers[Len(vcAnswers)]) =>
              /\ vcResult.kind = "ok"
              /\ vcResult.value.checkoutUrl = NoUrl
              /\ "challengeUrl" \in DOMAIN vcResult.value
              /\ vcResult.value.challengeUrl = CaptchaUrl

\* what holds: a build whose last answer signals a challenge is no error, it
\* is Ok with no checkout URL
C29_ChallengeIsNoError ==
  (/\ vcAction = "buildCheckout" /\ vcPc = "done"
   /\ SignalsChallenge(vcAnswers[Len(vcAnswers)])) =>
    vcResult = CheckoutBuilt(NoUrl)

\* the place of a request's endpoint among the three of sendOffer
EndpointIndex(i) == CHOOSE k \in 1..3 : OfferEndpoints[k] = vcRequests[i].endpoint

OfferSucceeded(o) == o.kind = "json" /\ ~o.errors

\* C30: sendOffer tries transactions/{id}/offer_requests, transactions/{id}/offers
\* and offers in that order, moving on only after an endpoint failed; the
\* first endpoint that succeeds ends the call with success and no request
\* follows it; the call fails only after all three endpoints failed.
C30_OfferEndpointsInOrder ==
  vcAction = "sendOffer" =>
    /\ \A i \in DOMAIN vcRequests : vcRequests[i].endpoint \in {OfferEndpoints[k] : k \in 1..3}
    /\ EndpointIndex(1) = 1
    /\ \A i \in 2..Len(vcRequests) :
         IF vcRequests[i].headers.authorization
         THEN EndpointIndex(i) = EndpointIndex(i - 1)
         ELSE /\ EndpointIndex(i) = EndpointIndex(i - 1) + 1
              /\ ~OfferSucceeded(vcAnswers[i - 1])
    /\ \A i \in DOMAIN vcAnswers :
         OfferSucceeded(vcAnswers[i]) =>
           /\ i = Len(vcRequests)
           /\ vcPc = "done"
           /\ vcResult = Ok([sent |-> TRUE])
    /\ (vcPc = "done" /\ vcResult.kind = "err") =>
         /\ EndpointIndex(Len(vcRequests)) = 3
         /\ vcResult.error \in {vcErrors[k] : k \in 1..3}

\* the first endpoint failed, the second succeeded after its Bearer repeat,
\* and the third was not called
C30_SecondEndpointSucceeds ==
  /\ vcAction = "sendOffer"
  /\ vcPc = "done"
  /\ vcResult = Ok([sent |-> TRUE])
  /\ vcRequests[Len(vcRequests)].endpoint = OfferEndpoints[2]
  /\ vcRequests[Len(vcRequests)].headers.authorization

\* an error message that names access_denied, cloudflare, captcha or blockiert
CarriesSignal(message) ==
  \E i \in DOMAIN message :
    \/ LowerWord(message[i]) \in {"access_denied", "cloudflare", "blockiert"}
    \/ message[i] = CaptchaUrl

AllEndpointsFailed ==
  vcAction = "sendOffer" /\ vcPc = "done" /\ vcResult.kind = "err" /\ Len(vcErrors) = 3

\* C31: when all three offer endpoints failed, the error sendOffer returns
\* carries an access-denied or block signal whenever one of the three endpoint
\* errors does, and is the legacy endpoint's error when none of them does.
C31_MostSpecificOfferError ==
  AllEndpointsFailed =>
    /\ vcResult.error \in {vcErrors[k] : k \in 1..3}
    /\ (\E k \in 1..3 : CarriesSignal(vcErrors[k])) => CarriesSignal(vcResult.error)
    /\ (\A k \in 1..3 : ~CarriesSignal(vcErrors[k])) => vcResult.error = vcErrors[3]

\* only the second endpoint's error carries a signal, and it is returned
C31_TransactionErrorPreferred ==
  /\ AllEndpointsFailed
  /\ ~CarriesSignal(vcErrors[1])
  /\ CarriesSignal(vcErrors[2])
  /\ ~CarriesSignal(vcErrors[3])
  /\ vcResult.error = vcErrors[2]
  /\ vcErrors[2] # vcErrors[3]

\* the attempts resolveRefreshTokenForSetup is to make, in order: the selected
\* region and then the others, each with every token candidate
PlannedAttempts ==
  LET tokens == extractRefreshTokenCandidates(rsInput.refreshTokenInput)
      others == {r \in VintedRegions : r # rsInput.selectedRegion}
      Place(region) ==
        IF region = rsInput.selectedRegion THEN 0
        ELSE 1 + Cardinality({r \in others :
               \E i, j \in 1..Len(ALL_REGIONS) :
                 i < j /\ ALL_REGIONS[i] = r /\ ALL_REGIONS[j] = region})
  IN  [n \in 1..(Cardinality(VintedRegions) * Len(tokens)) |->
         [region |-> CHOOSE r \in VintedRegions : Place(r) = (n - 1) \div Len(tokens),
          refreshToken |-> tokens[((n - 1) % Len(tokens)) + 1]]]

AttemptOutcome(i) ==
  refreshAttempt(rsInput.refreshAttempt, rsAttempts[i].region, rsAttempts[i].refreshToken)

FailedWithInvalidGrant(i) ==
  /\ AttemptOutcome(i).kind = "err"
  /\ \E k \in DOMAIN AttemptOutcome(i).error :
       \/ LowerWord(AttemptOutcome(i).error[k]) = "invalid_grant"
       \/ /\ k + 3 <= Len(AttemptOutcome(i).error)
          /\ [j \in 1..4 |-> LowerWord(AttemptOutcome(i).error[k + j - 1])]
               = <<"authorization", "grant", "is", "invalid">>

\* C32: resolveRefreshTokenForSetup tries the selected region first and then
\* the other regions, each with every token candidate; it makes a further
\* attempt only after an invalid_grant failure, returns the first success with
\* the region it succeeded in, returns a blocked or other error at once, and
\* returns the invalid_grant setup message when every attempt failed with
\* invalid_grant.
C32_SetupTriesRegionsInOrder ==
  rsPc # "idle" =>
    /\ Len(rsAttempts) <= Len(PlannedAttempts)
    /\ \A i \in DOMAIN rsAttempts : rsAttempts[i] = PlannedAttempts[i]
    /\ \A i \in 1..(Len(rsAttempts) - 1) : FailedWithInvalidGrant(i)
    /\ (rsPc = "done" /\ rsAttempts # <<>>) =>
         LET last == Len(rsAttempts)
         IN  /\ AttemptOutcome(last).kind = "ok" =>
                  rsResult = Ok([region |-> rsAttempts[last].region,
                                 tokenResponse |-> AttemptOutcome(last).value])
             /\ (/\ AttemptOutcome(last).kind = "err"
                 /\ \/ ~FailedWithInvalidGrant(last)
                    \/ \E k \in DOMAIN AttemptOutcome(last).error :
                         LowerWord(AttemptOutcome(last).error[k]) = "blockiert") =>
                  rsResult = Err(AttemptOutcome(last).error)
             /\ (\A i \in 1..last : FailedWithInvalidGrant(i)
                   /\ ~isBlockedError(AttemptOutcome(i).error)) =>
                  /\ last = Len(PlannedAttempts)
                  /\ rsResult = Err(INVALID_GRANT_SETUP_MESSAGE)
    /\ (rsPc = "attempt") => rsAttempts # <<>>

\* the token is found in another region than the selected one, with the
\* second candidate, after invalid_grant failures
C32_FoundInOtherRegion ==
  /\ rsPc = "done"
  /\ rsResult.kind = "ok"
  /\ rsResult.value.region = "at"
  /\ rsInput.selectedRegion = "nl"
  /\ Len(rsAttempts) = 6
  /\ rsAttempts[6].refreshToken = "abc+def="

\* two calls of send of one kind for one id, less than the cooldown apart
SentTwiceWithin(kind, ms) ==
  \E a, b \in sendCalls :
    /\ a # b
    /\ a.kind = kind /\ b.kind = kind
    /\ a.id = b.id
    /\ a.at - b.at < ms /\ b.at - a.at < ms

\* C33: whatever calls of notifySetupRequiredIfNeeded are made, overlapping
\* ones for different subscriptions of one user included, at most one channel
\* notice per subscription id and at most one direct message per user id is
\* attempted within 60 minutes.
C33_OncePerCooldown ==
  /\ ~SentTwiceWithin("channel", CHANNEL_COOLDOWN_MS)
  /\ ~SentTwiceWithin("dm", DM_COOLDOWN_MS)

\* the channel notices of a subscription, which is in one task at a time,
\* are a cooldown apart
C33_ChannelNoticeOncePerCooldown == ~SentTwiceWithin("channel", CHANNEL_COOLDOWN_MS)

\* calls that do not overlap keep to one notice and one direct message: no
\* second send for an id is called by the same task within the cooldown
C33_OncePerCooldownPerTask ==
  \A a, b \in sendCalls :
    (a # b /\ a.kind = b.kind /\ a.id = b.id /\ a.task = b.task) =>
      (a.at - b.at >= CHANNEL_COOLDOWN_MS \/ b.at - a.at >= CHANNEL_COOLDOWN_MS)

\* C34: with the backend configured as fetch no request goes through the curl
\* child, a rejected fetch included; configured as curl every request goes
\* through the child and none through fetch; the failover from fetch to curl
\* and the prefer-curl window are used in auto mode only.
C34_ConfiguredBackendOnly ==
  /\ httpBackend = "fetch" =>
       /\ \A p \in Callers : fetchJsonCalls[p].curlCalls = 0
       /\ preferCurlUntil = 0
  /\ httpBackend = "curl" =>
       \A p \in Callers :
         /\ ~fetchJsonCalls[p].triedFetch
         /\ fetchJsonCalls[p].pc # "idle" => fetchJsonCalls[p].curlCalls = 1
  /\ \A p \in Callers :
       (fetchJsonCalls[p].triedFetch /\ fetchJsonCalls[p].curlCalls > 0) => httpBackend = "auto"

\* configured as fetch, the curl child runs only for a request whose fetch
\* rejected, and a response of fetch, whatever its status, is never retried;
\* configured as curl, every request goes through the child alone
C34_FetchModeFallsBackOnlyOnReject ==
  /\ httpBackend = "fetch" =>
       \A p \in Callers :
         /\ fetchJsonCalls[p].pc # "idle" => fetchJsonCalls[p].triedFetch
         /\ fetchJsonCalls[p].curlCalls <= 1
         /\ fetchJsonCalls[p].curlCalls = 1 =>
              /\ fetchJsonCalls[p].res = NoEntry
              /\ \E f \in fetchFailures : f.kind = "threw"
  /\ httpBackend = "curl" =>
       \A p \in Callers :
         /\ ~fetchJsonCalls[p].triedFetch
         /\ fetchJsonCalls[p].pc # "idle" => fetchJsonCalls[p].curlCalls = 1

\* slot s runs a refresh that was started before setup stored another
\* refresh token and cleared the user's token state
StaleRefresh(s) ==
  /\ pc[s] \in {"refresh", "write"}
  /\ clearedSince[s]
  /\ accounts[user[s]] # NoAccount
  /\ accounts[user[s]].encryptedRefreshToken # encryptToken(sent[s].refreshToken)

\* C35: once setup has stored a new refresh token and cleared the user's
\* token state, a refresh started before the clear no longer writes the
\* user's cached token, block state or reauth state, does not overwrite the
\* stored refresh token and does not remove the in-flight entry of a refresh
\* started after the clear.
C35_StaleRefreshWritesNothing ==
  [][\A s \in Slots :
       (StaleRefresh(s) /\ pc'[s] # pc[s]) =>
         /\ cache'[user[s]] = cache[user[s]]
         /\ blocked'[user[s]] = blocked[user[s]]
         /\ reauthRequired'[user[s]] = reauthRequired[user[s]]
         /\ accounts'[user[s]] = accounts[user[s]]
         /\ inFlight[user[s]] # s => inFlight'[user[s]] = inFlight[user[s]]]_vars

\* the calls of submitCheckoutPurchase that answered purchased = true
ConfirmedSubmits ==
  {i \in DOMAIN answers :
     /\ calls[i].fn = "submitCheckoutPurchase"
     /\ answers[i].kind = "ok"
     /\ answers[i].purchased}

\* C36: within one attemptInstantBuy call the status purchased or
\* purchased_without_pickup is returned only if a submitCheckoutPurchase of
\* the attempt answered purchased = true, and after such an answer the
\* attempt calls neither submitCheckoutPurchase nor buildCheckout again.
C36_PurchasedOnlyWhenConfirmed ==
  running = "attemptInstantBuy" =>
    /\ ( /\ step = "done"
         /\ attemptResult.kind = "ok"
         /\ attemptResult.value.status \in {"purchased", "purchased_without_pickup"} )
       => ConfirmedSubmits # {}
    /\ \A i \in ConfirmedSubmits :
         \A j \in DOMAIN calls :
           j > i => calls[j].fn \notin {"submitCheckoutPurchase", "buildCheckout"}
    /\ ConfirmedSubmits # {} =>
         /\ step = "done"
         /\ attemptResult.kind = "ok"
         /\ attemptResult.value.status \in {"purchased", "purchased_without_pickup"}

\* the first candidate's submit did not confirm, the second one did, and the
\* attempt ended purchased
C36_SecondCandidateConfirmed ==
  /\ running = "attemptInstantBuy"
  /\ step = "done"
  /\ candidate = 2
  /\ ConfirmedSubmits = {Len(calls)}
  /\ attemptResult.value.status = "purchased"

\* attemptCheckoutBuild has returned a CheckoutBuildResult
CheckoutBuildReturned ==
  /\ running = "attemptCheckoutBuild"
  /\ step = "done"
  /\ attemptResult.kind = "ok"

\* C38: attemptCheckoutBuild returns invalid_pickup_point only for an
\* account with a stored pickup point.
C38_InvalidPickupNeedsPickupPoint ==
  (CheckoutBuildReturned /\ attemptResult.value.status = "invalid_pickup_point")
    => hasPickupPoint

\* for an account with no pickup point one buildCheckout is made per item id
\* and none is repeated without pickup point; invalid_pickup_point is then
\* the class of the last build's error
C38_NoPickupNoFallback ==
  (CheckoutBuildReturned /\ ~hasPickupPoint) =>
    /\ \A i \in DOMAIN calls : calls[i].fn = "buildCheckout" => calls[i].pickupPoint = pickupPoint
    /\ Cardinality({i \in DOMAIN calls : calls[i].fn = "buildCheckout"}) = Len(buildAttempts)
    /\ attemptResult.value.status = "invalid_pickup_point" =>
         /\ answers[Len(answers)].kind = "err"
         /\ classifyCheckoutErrorMessage(answers[Len(answers)].error) = "invalid_pickup_point"

\* ------------------------------------------------- items posted and bought once
\* C37: for each subscription, across all watcher ticks, an item is posted to
\* the channel at most once and an automatic buy is attempted for it at most
\* once, also when a channel send, the automatic buy or the last-seen update
\* fails part-way through a tick; the stored lastSeenItemId never decreases.
C37_PostedAndBoughtAtMostOnce ==
  \A item \in WatcherItems : postedCount[item] <= 1 /\ buyCount[item] <= 1

\* C37, the part about lastSeenItemId alone: no step of the watcher lowers the
\* stored lastSeenItemId of a subscription.
C37_LastSeenNeverDecreases ==
  [][\A s \in WatcherSubscriptions :
       storedLastSeenItemId'[s] >= storedLastSeenItemId[s]]_vars

\* C37, the ticks in which nothing fails: an item at or below the stored
\* lastSeenItemId is not posted while the tick that read this value runs.
C37_PostedAboveLastSeen ==
  [][\A item \in WatcherItems :
       postedCount'[item] # postedCount[item] => item > subLastSeenItemId]_vars

\* ------------------------------------------------- the watcher's backoff
\* C40: a subscription whose backoff `until` is in the future is not polled by
\* any tick, and after a subscription has been polled successfully its backoff
\* strike count is reset, so that a later block starts again from the shortest
\* delay.  Here: once the catalogue answered a poll, the subscription has no
\* strikes left until it is blocked again.
C40_StrikesResetAfterPoll ==
  \A s \in WatcherSubscriptions :
    polledSinceBackoff =>
      \/ blockedUntilBySubscriptionId[s] = NoEntry
      \/ blockedUntilBySubscriptionId[s].strikes = 0

\* C40, the first half alone: a tick starts processSubscription only for a
\* subscription whose backoff is absent or over.
C40_BlockedNotPolled ==
  [][\A s \in WatcherSubscriptions :
       (watcherPc = "list" /\ watcherPc' = "token") =>
         \/ blockedUntilBySubscriptionId[s] = NoEntry
         \/ blockedUntilBySubscriptionId[s].until <= watcherNow]_vars

\* a subscription in backoff met a tick, which left it alone
C40_BlockedSkipped ==
  /\ watcherPc = "list"
  /\ \E s \in WatcherSubscriptions :
       /\ blockedUntilBySubscriptionId[s] # NoEntry
       /\ blockedUntilBySubscriptionId[s].until > tickNow

\* ------------------------------------------------- the in-flight entry goes
\* C39: every refresh that is started eventually completes, with Ok, with Err
\* or with a thrown exception, and when it completes the user's in-flight
\* entry is removed, so that a later getAccessTokenForUser call for that user
\* can start a new refresh and no in-flight entry stays pending for ever.
C39_RefreshRemovesInFlightEntry ==
  \A s \in Slots :
    Refreshing(s) ~> (pc[s] = "done" /\ inFlight[user[s]] = NoSlot)

\* C39, the entry alone: a user's in-flight entry is always removed again.
C39_NoPermanentInFlightEntry ==
  \A u \in Users : (inFlight[u] # NoSlot) ~> (inFlight[u] = NoSlot)

\* a refresh ended with a thrown exception, the entry is gone and the other
\* caller has started a new refresh for the user
C39_NewRefreshAfterThrown ==
  \E s, t \in Slots :
    /\ s # t /\ user[s] = user[t]
    /\ pc[s] = "done" /\ path[s] = "owner" /\ ret[s] = Thrown
    /\ covered[t] = {} /\ Refreshing(t) /\ inFlight[user[t]] = t

\* ------------------------------------------------- one refresh at a time
\* The statements of C2, C3, C5 and C7 for the users that had no
\* clearTokenStateForUser during a refresh: each holds under Spec, so each of
\* the four fails only in runs where a clear lets a second refresh start.
C2_ReauthWindowUnraced ==
  [][\A s \in Slots, u \in Users :
       (getAccessTokenForUser(s, u) /\ ~raced[u]) =>
         /\ (igUntil[u] # NoWindow /\ now < igUntil[u].until) =>
              /\ pc'[s] = "done"
              /\ ret'[s] = Err(ERR_REAUTH)
              /\ ~issued'[s]
         /\ afterClear[u] => path'[s] = "owner"]_vars

C3_BlockFailsFastUnraced ==
  [][\A s \in Slots, u \in Users :
       (getAccessTokenForUser(s, u) /\ ~raced[u]) =>
         /\ (blocked[u] # NoEntry /\ now < blocked[u].until) =>
              /\ pc'[s] = "done"
              /\ ret'[s] = Err(ERR_BLOCKED_FAST)
              /\ ~issued'[s]
         /\ (blocked[u] # NoEntry /\ now >= blocked[u].until /\ ~blockTried[u]) =>
              path'[s] \in {"owner", "joined"}]_vars

C5_CachedTokenNoRefreshUnraced ==
  [][/\ \A s \in Slots, u \in Users :
          (/\ getAccessTokenForUser(s, u)
           /\ cache[u] # NoEntry
           /\ now < cache[u].expiresAtMs - 30 * 1000) =>
            /\ pc'[s] = "done"
            /\ ret'[s] = Ok(cache[u])
            /\ ~issued'[s]
     /\ \A s \in Slots : \A t \in clean'[s] :
          ~raced'[user'[s]] => OneRefreshCallFor(s, t)']_vars

C7_SuccessLeavesCleanStateUnraced ==
  [][\A s \in Slots :
       (~raced'[user[s]] /\ pc[s] \in {"refresh", "write"} /\ pc'[s] = "done"
        /\ ret'[s].kind = "ok") =>
         /\ cache'[user[s]] = ret'[s].value
         /\ blocked'[user[s]] = NoEntry
         /\ reauthRequired'[user[s]] = NoEntry]_vars

\* -------------------------------------------- purchase ids that are not negative
\* The statement of C15 for the checkout URLs whose purchase_id is not a
\* negative number: it holds under SpecActions, so C15 fails only for them.
C15_SubmitOfReadyCheckoutNotNegative ==
  LET purchaseId == extractPurchaseIdFromCheckoutUrl(checkoutAttempt.checkoutUrl)
  IN  (ReturnedForReadyBuild /\ (purchaseId.null \/ purchaseId.n >= 0))
        => SubmitMapping(purchaseId)

====
